---- MODULE Spec2Model ----
(***************************************************************************)
(* Verification model of the task node (womboai/pft-nft-node).             *)
(*                                                                         *)
(* Texts (memo_data, memo_type, model output) are sequences of tokens: a   *)
(* stage literal is one token followed by its trailing space token, free   *)
(* text is made of word tokens.  Substring search, split, strip and        *)
(* replace work on these sequences the way the code works on characters.   *)
(***************************************************************************)
EXTENDS Integers, Sequences, FiniteSets, TLC

\* ------------------------------------------------------------------------
\* Bounds of the model
\* ------------------------------------------------------------------------
MaxRows == 3
MaxTime == 2
MaxContentLen == 4
MaxAppended == 2
MaxExtras == 1
MaxMemoTokens == 4

\* ------------------------------------------------------------------------
\* State
\* ------------------------------------------------------------------------
VARIABLES
    input,        \* memo history handed to the reducer (rows in input order)
    records,      \* task_pairs returned by get_task_state_pairs(input)
    prevInput,    \* the history before the last transformation
    prevRecords,  \* the task_pairs of prevInput
    lastOp        \* what produced input: "fetch", "reorder", "duplicate", "dropFailed"

reduceVars == << input, records, prevInput, prevRecords, lastOp >>

VARIABLES
    llm_content,        \* text returned by the arbitration call
    reward_amount,  \* evaluation_result['reward_amount']
    extracted       \* TRUE once _extract_pft_reward has run on llm_content

rewardVars == << llm_content, reward_amount, extracted >>

VARIABLES
    log,      \* the ledger: memo transactions in ledger order (append-only)
    clock,    \* the close time the next transactions get
    config,   \* RuntimeConfig: USE_TESTNET, ENABLE_REINITIATIONS
    cur       \* the request under evaluation and how far the node got with it

nodeVars == << log, clock, config, cur >>

VARIABLES
    history,     \* the memo history of an account as it grows, in arrival order
    task_pairs,  \* get_task_state_pairs(history)
    prev_pairs,  \* the task_pairs before the last event arrived
    reached,     \* the stage of the task lifecycle the last lifecycle event reached
    extras       \* number of events that arrived outside the lifecycle

lifeVars == << history, task_pairs, prev_pairs, reached, extras >>

VARIABLES
    memo_value,  \* a memo_data value handed to classify_task_string
    classified   \* the outcome of the call, NotCalled before it

classVars == << memo_value, classified >>

VARIABLES
    graph        \* per node, the add_pattern calls its create() has made so far

graphVars == << graph >>

VARIABLES
    task_text,           \* the task text extract_final_output returned
    pf_proposal_string,  \* the proposal string built from it, empty before
    proposed_reward      \* the proposed reward read back from the proposal

proposalVars == << task_text, pf_proposal_string, proposed_reward >>

VARIABLES
    memo_history,  \* the memo history of the user's account, oldest first
    corbanu_sent   \* the last reward corbanu_reply sent, NotCalled before

corbanuVars == << memo_history, corbanu_sent >>

VARIABLES
    like_input,  \* a memo data pattern of the graph and a memo_data text
    like_result  \* what the regular expression and its LIKE pattern say of it

likeVars == << like_input, like_result >>

VARIABLES
    minter_pc,    \* where create_nft_for_recipient stands: "start", "offer", "done"
    mint_result,  \* what mint_nft returned, NotCalled before
    offer_result, \* what create_sell_offer returned, NotCalled before
    nft_result,   \* what create_nft_for_recipient returned, NotCalled before
    accept_result,\* what accept_offer returned, NotCalled before
    submitted     \* the transactions handed to submit_and_wait, in order

minterVars == << minter_pc, mint_result, offer_result, nft_result, accept_result,
                 submitted >>

VARIABLES
    use_testnet,               \* RuntimeConfig.USE_TESTNET of the Discord bot
    settings_objects,          \* the DeathMarchSettings objects created so far
    user_deathmarch_settings,  \* the user's entry: an object's index, 0 if none
    checker_tasks,             \* the checker tasks created so far
    death_march_tasks,         \* the user's entry: a task's index, 0 if none
    starts,                    \* /pf_death_march_start calls awaiting send_memo
    payments                   \* the death march payments taken, in order

marchVars == << use_testnet, settings_objects, user_deathmarch_settings,
                checker_tasks, death_march_tasks, starts, payments >>

VARIABLES
    user_questions,  \* the user's stored Corbanu question, 0 if none
    asked,           \* the number of questions generated so far
    replies,         \* the /corbanu_reply calls under way
    reward_txs       \* the questions of the reward transactions sent

replyVars == << user_questions, asked, replies, reward_txs >>

sideVars == << minterVars, marchVars, replyVars >>

extVars == << proposalVars, corbanuVars, likeVars, sideVars >>

otherVars == << lifeVars, classVars, graphVars, extVars >>

vars == << input, records, prevInput, prevRecords, lastOp,
           llm_content, reward_amount, extracted,
           log, clock, config, cur,
           history, task_pairs, prev_pairs, reached, extras,
           memo_value, classified, graph,
           task_text, pf_proposal_string, proposed_reward,
           memo_history, corbanu_sent, like_input, like_result,
           minter_pc, mint_result, offer_result, nft_result, accept_result,
           submitted,
           use_testnet, settings_objects, user_deathmarch_settings,
           checker_tasks, death_march_tasks, starts, payments,
           user_questions, asked, replies, reward_txs >>

\* ------------------------------------------------------------------------
\* Text helpers
\* ------------------------------------------------------------------------

\* Python: pat in s
Contains(pat, s) ==
    \E i \in 0..(Len(s) - Len(pat)) : SubSeq(s, i + 1, i + Len(pat)) = pat

\* Python: str.strip() (whitespace tokens at both ends are removed)
IsSpace(tok) == tok \in {" ", "\n"}

RECURSIVE LStrip(_)
LStrip(s) == IF s # <<>> /\ IsSpace(Head(s)) THEN LStrip(Tail(s)) ELSE s

RECURSIVE RStrip(_)
RStrip(s) ==
    IF s # <<>> /\ IsSpace(s[Len(s)]) THEN RStrip(SubSeq(s, 1, Len(s) - 1)) ELSE s

Strip(s) == LStrip(RStrip(s))

\* Python: s.replace(tok, '') for a one-token needle
RECURSIVE RemoveToken(_, _)
RemoveToken(s, tok) ==
    IF s = <<>> THEN <<>>
    ELSE IF Head(s) = tok THEN RemoveToken(Tail(s), tok)
    ELSE <<Head(s)>> \o RemoveToken(Tail(s), tok)

\* Python: s.split(tok)[-1] for a one-token separator: the text after the
\* last occurrence of the separator, the whole text when it does not occur
RECURSIVE AfterLast(_, _)
AfterLast(s, tok) ==
    IF \E i \in 1..Len(s) : s[i] = tok
    THEN AfterLast(Tail(s), tok)
    ELSE s

\* ------------------------------------------------------------------------
\* tasknode/task_processing/constants.py
\* ------------------------------------------------------------------------

\* TaskType enum values (stage literals); member order is definition order
TaskTypeNames ==
    << "REQUEST_POST_FIAT", "PROPOSAL", "ACCEPTANCE", "REFUSAL", "TASK_OUTPUT",
       "IMAGE_GEN", "IMAGE_GEN_RESPONSE", "VERIFICATION_PROMPT",
       "VERIFICATION_RESPONSE", "REWARD" >>

TaskTypeValue(name) ==
    CASE name = "REQUEST_POST_FIAT"     -> << "REQUEST_POST_FIAT ___", " " >>
      [] name = "PROPOSAL"              -> << "PROPOSED PF ___", " " >>
      [] name = "ACCEPTANCE"            -> << "ACCEPTANCE REASON ___", " " >>
      [] name = "REFUSAL"               -> << "REFUSAL REASON ___", " " >>
      [] name = "TASK_OUTPUT"           -> << "COMPLETION JUSTIFICATION ___", " " >>
      [] name = "IMAGE_GEN"             -> << "GENERATE IMAGE ___" >>
      [] name = "IMAGE_GEN_RESPONSE"    -> << "IMAGE RESPONSE ___" >>
      [] name = "VERIFICATION_PROMPT"   -> << "VERIFICATION PROMPT ___", " " >>
      [] name = "VERIFICATION_RESPONSE" -> << "VERIFICATION RESPONSE ___", " " >>
      [] name = "REWARD"                -> << "REWARD RESPONSE __", " " >>

\* TASK_PATTERNS: PROPOSAL is inserted first with two literals, the other
\* task types follow in enum order with their own literal
TaskPatternOrder ==
    << "PROPOSAL", "REQUEST_POST_FIAT", "ACCEPTANCE", "REFUSAL", "TASK_OUTPUT",
       "IMAGE_GEN", "IMAGE_GEN_RESPONSE", "VERIFICATION_PROMPT",
       "VERIFICATION_RESPONSE", "REWARD" >>

TaskPatterns(name) ==
    IF name = "PROPOSAL"
    THEN { << " ", "..", " " >>, TaskTypeValue("PROPOSAL") }
    ELSE { TaskTypeValue(name) }

\* ------------------------------------------------------------------------
\* tasknode/task_processing/user_context_parsing.py : UserTaskParser
\* ------------------------------------------------------------------------

\* classify_task_string: the first task type, in TASK_PATTERNS order, one of
\* whose literals occurs in the string
\* The task type of the last matching entry of TASK_PATTERNS instead of the
\* first
RECURSIVE ClassifyFrom_last_match(_, _)
ClassifyFrom_last_match(k, string) ==
    IF k > Len(TaskPatternOrder) THEN "UNKNOWN"
    ELSE IF ClassifyFrom_last_match(k + 1, string) # "UNKNOWN"
         THEN ClassifyFrom_last_match(k + 1, string)
         ELSE IF \E pattern \in TaskPatterns(TaskPatternOrder[k]) : Contains(pattern, string)
              THEN TaskPatternOrder[k]
              ELSE "UNKNOWN"

RECURSIVE ClassifyFrom(_, _)
ClassifyFrom(k, string) ==
    IF k > Len(TaskPatternOrder) THEN "UNKNOWN"
    ELSE IF \E pattern \in TaskPatterns(TaskPatternOrder[k]) : Contains(pattern, string)
         THEN TaskPatternOrder[k]
         ELSE ClassifyFrom(k + 1, string)

classify_task_string(string) == ClassifyFrom(1, string)

\* A memo_data value of a history row: a text, or a missing value (None, NaN)
TextValue(string) == [ kind |-> "str", text |-> string ]
MissingValues == { [ kind |-> "None" ], [ kind |-> "nan" ] }

\* A call of classify_task_string on a memo_data value: 'pattern in string'
\* raises TypeError when the value is not a text
classify_task_string_call(value) ==
    IF value.kind = "str"
    THEN [ called |-> TRUE, raised |-> FALSE, result |-> classify_task_string(value.text) ]
    ELSE [ called |-> TRUE, raised |-> TRUE, result |-> "TypeError" ]

\* Task id tokens stand for texts of the form YYYY-MM-DD_HH:MM(__XXXX)
TaskIds == { "T1", "T2" }

\* is_valid_id: re.search of the task id pattern in the memo type
is_valid_id(memo_type) ==
    /\ memo_type # <<>>
    /\ \E i \in 1..Len(memo_type) : memo_type[i] \in TaskIds

\* Addresses: the node (node_config.node_address), the remembrancer and users
NodeAddress == "rNode"
RemembrancerAddress == "rRemembrancer"
Users == { "rU1", "rU2" }

\* Free-text memo bodies used to build events
Body(stage, words) == TaskTypeValue(stage) \o words

ProposalA == Body("PROPOSAL", << "taskA", " ", "..", " ", "900" >>)
ProposalB == Body("PROPOSAL", << "taskB", " ", "..", " ", "500" >>)
AcceptanceMemo == Body("ACCEPTANCE", << "ok" >>)
RefusalMemo == Body("REFUSAL", << "no" >>)
TaskOutputMemo == Body("TASK_OUTPUT", << "done" >>)
VerificationPromptMemo == Body("VERIFICATION_PROMPT", << "prove" >>)
VerificationResponseMemo == Body("VERIFICATION_RESPONSE", << "proof" >>)
RewardMemo == Body("REWARD", << "good" >>)
RequestMemo == Body("REQUEST_POST_FIAT", << "task", "please" >>)

\* One ledger transaction with its memo (a row of the memo history)
EventP(acct, dest, mtype, mdata, time, ok, pft) ==
    [ account |-> acct, destination |-> dest, memo_type |-> mtype,
      memo_data |-> mdata, datetime |-> time, success |-> ok, pft_amount |-> pft ]

Event(acct, dest, mtype, mdata, time, ok) == EventP(acct, dest, mtype, mdata, time, ok, 0)

\* pandas NaT and the empty string
NaT == -1
EmptyText == << >>

\* DataFrame.sort_values('datetime') with the default kind='quicksort': the
\* rows in ascending datetime; the order of rows with equal datetime is not
\* specified, so every arrangement that is ascending is a possible outcome
RECURSIVE SortValues(_)
SortValues(rows) ==
    IF rows = << >> THEN { << >> }
    ELSE LET n == Len(rows)
             earliest == { i \in 1..n : \A j \in 1..n : rows[i].datetime <= rows[j].datetime }
             Without(i) == SubSeq(rows, 1, i - 1) \o SubSeq(rows, i + 1, n)
         IN  UNION { { << rows[i] >> \o rest : rest \in SortValues(Without(i)) } :
                     i \in earliest }

\* filter_tasks: rows whose memo_type holds a task id, with the task_type
\* column set by classify_task_string
filter_tasks(frame) ==
    LET kept == SelectSeq(frame, LAMBDA r : is_valid_id(r.memo_type))
    IN  [i \in 1..Len(kept) |->
            [ task_id |-> kept[i].memo_type, full_output |-> kept[i].memo_data,
              datetime |-> kept[i].datetime,
              task_type |-> classify_task_string(kept[i].memo_data) ]]

StateChangeTypes == { "ACCEPTANCE", "REFUSAL", "VERIFICATION_PROMPT", "REWARD" }

\* groupby('task_id').first() / .last() over the rows whose task_type is
\* one of types
GroupIds(frame, types) ==
    { frame[i].task_id : i \in { k \in 1..Len(frame) : frame[k].task_type \in types } }

\* groupby('task_id').last() where first() is meant
GroupFirst_last(frame, types, id) ==
    LET idx == { k \in 1..Len(frame) : frame[k].task_type \in types /\ frame[k].task_id = id }
    IN  frame[CHOOSE k \in idx : \A m \in idx : k >= m]

GroupFirst(frame, types, id) ==
    LET idx == { k \in 1..Len(frame) : frame[k].task_type \in types /\ frame[k].task_id = id }
    IN  frame[CHOOSE k \in idx : \A m \in idx : k <= m]

\* groupby('task_id').first() where last() is meant
GroupLast_first(frame, types, id) ==
    LET idx == { k \in 1..Len(frame) : frame[k].task_type \in types /\ frame[k].task_id = id }
    IN  frame[CHOOSE k \in idx : \A m \in idx : k <= m]

\* A reducer that enforces the final stages: once the id has a REWARD or
\* REFUSAL row, the last of those rows stays the state
GroupLast_final(frame, types, id) ==
    LET idx == { k \in 1..Len(frame) : frame[k].task_type \in types /\ frame[k].task_id = id }
        final == { k \in idx : frame[k].task_type \in { "REWARD", "REFUSAL" } }
    IN  IF final # { }
        THEN frame[CHOOSE k \in final : \A m \in final : k >= m]
        ELSE frame[CHOOSE k \in idx : \A m \in idx : k >= m]

GroupLast(frame, types, id) ==
    LET idx == { k \in 1..Len(frame) : frame[k].task_type \in types /\ frame[k].task_id = id }
    IN  frame[CHOOSE k \in idx : \A m \in idx : k >= m]

\* The task_pairs row of one task id: the proposal (first per task id) with
\* the latest state change (last per task id); an orphaned state change gets
\* the empty proposal
PairOf(task_frame, id) ==
    LET IsProposal == { "PROPOSAL" }
        IsStateChange == StateChangeTypes
        proposalIds == GroupIds(task_frame, IsProposal)
        common_ids == GroupIds(task_frame, IsStateChange) \cap proposalIds
    IN  IF id \in proposalIds
        THEN [ proposal |-> GroupFirst(task_frame, IsProposal, id).full_output,
               state_type |-> IF id \in common_ids
                              THEN GroupLast(task_frame, IsStateChange, id).task_type
                              ELSE "PROPOSAL",
               latest_state |-> IF id \in common_ids
                                THEN GroupLast(task_frame, IsStateChange, id).full_output
                                ELSE EmptyText,
               datetime |-> IF id \in common_ids
                            THEN GroupLast(task_frame, IsStateChange, id).datetime
                            ELSE NaT ]
        ELSE [ proposal |-> EmptyText,
               state_type |-> GroupLast(task_frame, IsStateChange, id).task_type,
               latest_state |-> GroupLast(task_frame, IsStateChange, id).full_output,
               datetime |-> GroupLast(task_frame, IsStateChange, id).datetime ]

\* The body of get_task_state_pairs after the sort without the rows of the
\* orphaned state changes (task_pairs before the concat)
TaskPairsOfSorted_without_orphans(sorted) ==
    LET task_frame == filter_tasks(sorted)
    IN  [id \in GroupIds(task_frame, { "PROPOSAL" }) |-> PairOf(task_frame, id)]

\* The body of get_task_state_pairs after the sort: the rows of the task ids
\* with a proposal and the rows of the orphaned state changes
TaskPairsOfSorted(sorted) ==
    LET task_frame == filter_tasks(sorted)
        proposalIds == GroupIds(task_frame, { "PROPOSAL" })
        orphaned_states == GroupIds(task_frame, StateChangeTypes) \ proposalIds
    IN  [id \in proposalIds \cup orphaned_states |-> PairOf(task_frame, id)]

\* get_task_state_pairs over the latest event of the history only
get_task_state_pairs_latest_event(account_memo_detail_df) ==
    { TaskPairsOfSorted(SelectSeq(sorted, LAMBDA r : r = sorted[Len(sorted)])) :
          sorted \in SortValues(account_memo_detail_df) }

\* get_task_state_pairs: the possible results for a memo history
get_task_state_pairs(account_memo_detail_df) ==
    { TaskPairsOfSorted(sorted) : sorted \in SortValues(account_memo_detail_df) }

\* ------------------------------------------------------------------------
\* The reducer applied to memo histories (specification SpecReduce)
\* ------------------------------------------------------------------------

\* Rows a fetched memo history is made of
ReduceRows ==
    { Event(NodeAddress, "rU1", << "T1" >>, md, t, TRUE) :
          md \in { ProposalA, ProposalB, RewardMemo }, t \in 1..MaxTime }
    \cup { Event("rU1", NodeAddress, << "T1" >>, AcceptanceMemo, t, TRUE) : t \in 1..MaxTime }
    \cup { Event("rU1", NodeAddress, << "T1" >>, RefusalMemo, t, ok) :
          t \in 1..MaxTime, ok \in BOOLEAN }
    \cup { Event(NodeAddress, "rU1", << "T2" >>, ProposalA, 1, TRUE),
           Event("rU1", NodeAddress, << "T2" >>, AcceptanceMemo, MaxTime, TRUE),
           Event("rU1", NodeAddress, << "INITIATION_RITE" >>, << "hello" >>, 1, TRUE) }

SeqsUpTo(S, n) == UNION { [1..k -> S] : k \in 0..n }

RECURSIVE SeqToSet(_)
SeqToSet(s) == IF s = <<>> THEN {} ELSE { Head(s) } \cup SeqToSet(Tail(s))

\* Two different rows of one task id carry the same datetime
HasTies(rows) ==
    \E i, j \in 1..Len(rows) :
        /\ rows[i] # rows[j]
        /\ rows[i].memo_type = rows[j].memo_type
        /\ rows[i].datetime = rows[j].datetime

InsertAt(s, j, x) == SubSeq(s, 1, j) \o << x >> \o SubSeq(s, j + 1, Len(s))

\* A history is fetched and reduced
ReduceInit ==
    /\ input \in SeqsUpTo(ReduceRows, MaxRows)
    /\ records \in get_task_state_pairs(input)
    /\ prevInput = input
    /\ prevRecords = records
    /\ lastOp = "fetch"

\* The same events are handed over in another order (two neighbours swapped)
\* and reduced again
Reorder(i) ==
    /\ lastOp = "fetch"
    /\ i \in 1..(Len(input) - 1)
    /\ input[i] # input[i + 1]
    /\ input' = [input EXCEPT ![i] = input[i + 1], ![i + 1] = input[i]]
    /\ records' \in get_task_state_pairs(input')
    /\ prevInput' = input
    /\ prevRecords' = records
    /\ lastOp' = "reorder"
    /\ UNCHANGED << rewardVars, nodeVars, otherVars >>

\* An event already in the history is delivered once more (at any position)
\* and the history is reduced again
Duplicate(i, j) ==
    /\ lastOp = "fetch"
    /\ i \in 1..Len(input)
    /\ j \in 0..Len(input)
    /\ input' = InsertAt(input, j, input[i])
    /\ records' \in get_task_state_pairs(input')
    /\ prevInput' = input
    /\ prevRecords' = records
    /\ lastOp' = "duplicate"
    /\ UNCHANGED << rewardVars, nodeVars, otherVars >>

\* The failed transactions are taken out of the history and it is reduced again
DropFailed ==
    /\ lastOp = "fetch"
    /\ \E i \in 1..Len(input) : ~input[i].success
    /\ input' = SelectSeq(input, LAMBDA r : r.success)
    /\ records' \in get_task_state_pairs(input')
    /\ prevInput' = input
    /\ prevRecords' = records
    /\ lastOp' = "dropFailed"
    /\ UNCHANGED << rewardVars, nodeVars, otherVars >>

ReduceNext ==
    \/ \E i \in 1..MaxRows : Reorder(i)
    \/ \E i \in 1..MaxRows, j \in 0..MaxRows : Duplicate(i, j)
    \/ DropFailed

\* C8: reducing the same events in another input order gives the same task
\* records, also when events of one task id have equal timestamps
C8_OrderIndependent == lastOp = "reorder" => records = prevRecords

\* C9: delivering exact duplicates of events already in the history does not
\* change the task records
C9_DuplicatesIgnored == lastOp = "duplicate" => records = prevRecords

\* C10: a failed transaction never affects a task record: the task records
\* of a history equal those of the history without its failed events (stated
\* for histories without equal timestamps, where the reducer has one result)
C10_FailedIgnored ==
    (lastOp = "dropFailed" /\ ~HasTies(prevInput)) => records = prevRecords

\* Sanity: without equal timestamps inside a task id, reordering and
\* duplicating leave the records unchanged
ReorderNoTies == (lastOp = "reorder" /\ ~HasTies(prevInput)) => records = prevRecords
DuplicateNoTies == (lastOp = "duplicate" /\ ~HasTies(prevInput)) => records = prevRecords

\* ------------------------------------------------------------------------
\* tasknode/task_processing/core_business_logic.py : RewardResponseGenerator
\* ------------------------------------------------------------------------
MIN_REWARD_AMOUNT == 1
MAX_REWARD_AMOUNT == 1200

\* The marker '| Total PFT Rewarded |' of the model output is one token
RewardMarker == "| Total PFT Rewarded |"

Digits == { "0", "1", "9" }
DigitValue(tok) == CASE tok = "0" -> 0 [] tok = "1" -> 1 [] tok = "9" -> 9

\* Python int(str): optional surrounding whitespace, an optional sign and at
\* least one digit; anything else raises ValueError
IntBody(s) == LET t == Strip(s) IN IF t # <<>> /\ Head(t) = "-" THEN Tail(t) ELSE t

IntParses(s) ==
    /\ IntBody(s) # <<>>
    /\ \A i \in 1..Len(IntBody(s)) : IntBody(s)[i] \in Digits

RECURSIVE DigitsValue(_)
DigitsValue(ds) ==
    IF ds = <<>> THEN 0
    ELSE 10 * DigitsValue(SubSeq(ds, 1, Len(ds) - 1)) + DigitValue(ds[Len(ds)])

IntOf(s) ==
    LET t == Strip(s)
    IN  IF Head(t) = "-" THEN 0 - DigitsValue(IntBody(s)) ELSE DigitsValue(IntBody(s))

Abs(n) == IF n < 0 THEN 0 - n ELSE n
Min(a, b) == IF a < b THEN a ELSE b
Max(a, b) == IF a > b THEN a ELSE b

\* content.split('| Total PFT Rewarded |')[-1:][0].replace('|','').strip()
RewardField(content) == Strip(RemoveToken(AfterLast(content, RewardMarker), "|"))

\* A slip the clamp guards against: the parsed number is passed on as it is
extract_pft_reward_unclamped(content) ==
    IF IntParses(RewardField(content))
    THEN IntOf(RewardField(content))
    ELSE MIN_REWARD_AMOUNT

\* _extract_pft_reward
extract_pft_reward(content) ==
    IF IntParses(RewardField(content))
    THEN Min(Max(Abs(IntOf(RewardField(content))), MIN_REWARD_AMOUNT), MAX_REWARD_AMOUNT)
    ELSE MIN_REWARD_AMOUNT

\* ------------------------------------------------------------------------
\* Reward extraction applied to model outputs (specification SpecReward)
\* ------------------------------------------------------------------------
ContentTokens == { RewardMarker, "|", " ", "-", "x" } \cup Digits

RewardInit ==
    /\ llm_content \in SeqsUpTo(ContentTokens, MaxContentLen)
    /\ reward_amount = 0
    /\ extracted = FALSE

ExtractReward ==
    /\ ~extracted
    /\ reward_amount' = extract_pft_reward(llm_content)
    /\ extracted' = TRUE
    /\ UNCHANGED << llm_content, reduceVars, nodeVars, otherVars >>

RewardNext == ExtractReward

\* C3: for every text returned by the arbitration call the reward amount is
\* an integer in [MIN_REWARD_AMOUNT, MAX_REWARD_AMOUNT], also when the parsed
\* score is negative, zero, far above the maximum or not a number
C3_RewardClamped ==
    extracted => reward_amount \in MIN_REWARD_AMOUNT..MAX_REWARD_AMOUNT

\* C3 witness: a score far above the maximum was parsed and clamped
C3_Witness ==
    /\ extracted
    /\ IntParses(RewardField(llm_content))
    /\ IntOf(RewardField(llm_content)) > MAX_REWARD_AMOUNT
    /\ reward_amount = MAX_REWARD_AMOUNT

\* ------------------------------------------------------------------------
\* Memo patterns and the interaction graph
\* (tasknode, imagenode and nftnode core_business_logic.py: create())
\* ------------------------------------------------------------------------

\* SystemMemoType values used as memo types
INITIATION_RITE == << "INITIATION_RITE" >>
INITIATION_REWARD == << "INITIATION_REWARD" >>
HANDSHAKE == << "HANDSHAKE" >>

\* A memo_data regular expression '.*LITERAL.*' ('.*LITERAL\s?.*' when the
\* space after the literal is optional)
DataRegex(lit, opt) == [ literal |-> lit, optional_space |-> opt ]

REQUEST_POST_FIAT_PATTERN == DataRegex(TaskTypeValue("REQUEST_POST_FIAT"), FALSE)
PROPOSAL_PATTERN == DataRegex(RStrip(TaskTypeValue("PROPOSAL")), TRUE)
TASK_OUTPUT_PATTERN == DataRegex(TaskTypeValue("TASK_OUTPUT"), FALSE)
VERIFICATION_PROMPT_PATTERN == DataRegex(TaskTypeValue("VERIFICATION_PROMPT"), FALSE)
VERIFICATION_RESPONSE_PATTERN == DataRegex(TaskTypeValue("VERIFICATION_RESPONSE"), FALSE)
REWARD_PATTERN == DataRegex(TaskTypeValue("REWARD"), FALSE)
IMAGE_GEN_PATTERN == DataRegex(TaskTypeValue("IMAGE_GEN"), FALSE)
IMAGE_RESPONSE_PATTERN == DataRegex(TaskTypeValue("IMAGE_GEN_RESPONSE"), FALSE)
ODV_REQUEST_PATTERN == DataRegex(<< "ODV" >>, FALSE)

RegexMatches(regex, text) == Contains(regex.literal, text)

\* nftnode TaskType values
NFT_MINT == "NFT MINT ___"
NFT_MINT_RESPONSE == "NFT MINT RESPONSE ___"

\* TASK_ID_PATTERN on a memo type: the memo type is a task id
IsTaskIdType(memo_type) == Len(memo_type) = 1 /\ memo_type[1] \in TaskIds

\* The task id a memo type carries, "" when it carries none
TaskIdOf(memo_type) ==
    IF is_valid_id(memo_type)
    THEN memo_type[CHOOSE i \in 1..Len(memo_type) :
                      /\ memo_type[i] \in TaskIds
                      /\ \A j \in 1..(i - 1) : memo_type[j] \notin TaskIds]
    ELSE ""

\* Request patterns of the graphs with the pattern each expects as response
RequestPatternIds ==
    { "initiation_rite", "handshake_request", "request_post_fiat", "task_output",
      "verification_response", "odv_request", "image_gen", "nft_mint" }

ValidResponse(pattern_id) ==
    CASE pattern_id = "initiation_rite"       -> "initiation_reward"
      [] pattern_id = "handshake_request"     -> "handshake_response"
      [] pattern_id = "request_post_fiat"     -> "proposal"
      [] pattern_id = "task_output"           -> "verification_prompt"
      [] pattern_id = "verification_response" -> "reward"
      [] pattern_id = "odv_request"           -> "odv_response"
      [] pattern_id = "image_gen"             -> "image_gen_response"
      [] pattern_id = "nft_mint"              -> "nft_mint_response"

\* Does the memo of tx match the memo pattern registered under pattern_id
MatchesPattern(pattern_id, tx) ==
    CASE pattern_id = "initiation_rite"    -> tx.memo_type = INITIATION_RITE
      [] pattern_id = "initiation_reward"  -> tx.memo_type = INITIATION_REWARD
      [] pattern_id \in { "handshake_request", "handshake_response" } -> tx.memo_type = HANDSHAKE
      [] pattern_id = "request_post_fiat"  ->
            IsTaskIdType(tx.memo_type) /\ RegexMatches(REQUEST_POST_FIAT_PATTERN, tx.memo_data)
      [] pattern_id = "proposal"           ->
            IsTaskIdType(tx.memo_type) /\ RegexMatches(PROPOSAL_PATTERN, tx.memo_data)
      [] pattern_id = "task_output"        ->
            IsTaskIdType(tx.memo_type) /\ RegexMatches(TASK_OUTPUT_PATTERN, tx.memo_data)
      [] pattern_id = "verification_prompt" ->
            IsTaskIdType(tx.memo_type) /\ RegexMatches(VERIFICATION_PROMPT_PATTERN, tx.memo_data)
      [] pattern_id = "verification_response" ->
            IsTaskIdType(tx.memo_type) /\ RegexMatches(VERIFICATION_RESPONSE_PATTERN, tx.memo_data)
      [] pattern_id = "reward"             ->
            IsTaskIdType(tx.memo_type) /\ RegexMatches(REWARD_PATTERN, tx.memo_data)
      [] pattern_id = "odv_request"        ->
            IsTaskIdType(tx.memo_type) /\ RegexMatches(ODV_REQUEST_PATTERN, tx.memo_data)
      [] pattern_id = "odv_response"       ->
            /\ Len(tx.memo_type) = 2
            /\ tx.memo_type[1] \in TaskIds
            /\ tx.memo_type[2] = "_response"
      [] pattern_id = "image_gen"          ->
            IsTaskIdType(tx.memo_type) /\ RegexMatches(IMAGE_GEN_PATTERN, tx.memo_data)
      [] pattern_id = "image_gen_response" ->
            IsTaskIdType(tx.memo_type) /\ RegexMatches(IMAGE_RESPONSE_PATTERN, tx.memo_data)
      [] pattern_id = "nft_mint"           ->
            /\ Len(tx.memo_type) = 3
            /\ tx.memo_type[1] \in TaskIds
            /\ tx.memo_type[2] = "__"
            /\ tx.memo_type[3] = NFT_MINT
      [] pattern_id = "nft_mint_response"  ->
            /\ Len(tx.memo_type) = 3
            /\ tx.memo_type[1] \in TaskIds
            /\ tx.memo_type[2] = "__"
            /\ tx.memo_type[3] = NFT_MINT_RESPONSE

\* ------------------------------------------------------------------------
\* tasknode/task_processing/utils.py, nftnode/nft_processing/utils.py
\* ------------------------------------------------------------------------

\* regex_to_sql_pattern: the '\s?' is removed, the text between the '.*'
\* markers is unescaped and wrapped in '%'
regex_to_sql_pattern(regex) == << "%" >> \o regex.literal \o << "%" >>

\* A piece of text that differs from a stage literal only where the literal
\* has an underscore
Lookalike(piece) ==
    CASE piece = "PROPOSED PF ___"         -> "PROPOSED PF abc"
      [] piece = "VERIFICATION PROMPT ___" -> "VERIFICATION PROMPT abc"
      [] piece = "REWARD RESPONSE __"      -> "REWARD RESPONSE ab"
      [] piece = "IMAGE RESPONSE ___"      -> "IMAGE RESPONSE abc"
      [] OTHER                             -> piece

\* SQL LIKE on one piece: '_' matches any one character, every other
\* character matches itself
LikePiece(piece, pattern_piece) ==
    piece = pattern_piece \/ piece = Lookalike(pattern_piece)

\* SQL: text LIKE '%literal%'
Like(text, sql_pattern) ==
    LET literal == SubSeq(sql_pattern, 2, Len(sql_pattern) - 1)
    IN  \E i \in 0..(Len(text) - Len(literal)) :
            \A k \in 1..Len(literal) : LikePiece(text[i + k], literal[k])

\* derive_response_memo_type: f"{task_id}__{response_memo_type}"
derive_response_memo_type(request_memo_type, response_memo_type) ==
    << TaskIdOf(request_memo_type), "__", response_memo_type >>

\* ------------------------------------------------------------------------
\* Request rules: validate and find_response
\* ------------------------------------------------------------------------
IMAGE_GEN_COST_HUNDREDTHS == 1
NFT_MINT_COST == 1

NoPattern == << >>

\* InitiationRiteRule.is_valid_initiation_rite (the minimum length of ten
\* characters is the presence of text after stripping)
is_valid_initiation_rite(rite_text) == Strip(rite_text) # << >>

\* A memo_data that get_shared_secret accepts as an ECDH public key
ValidPublicKey == << "pubkey" >>

\* validate of the request rule registered for pattern_id
validate(pattern_id, tx) ==
    CASE pattern_id = "initiation_rite" ->
            tx.destination = NodeAddress /\ is_valid_initiation_rite(tx.memo_data)
      [] pattern_id = "handshake_request" ->
            /\ tx.destination \in { NodeAddress, RemembrancerAddress }
            /\ tx.memo_data = ValidPublicKey
      [] pattern_id \in { "request_post_fiat", "task_output", "verification_response" } ->
            tx.destination = NodeAddress
      [] pattern_id = "odv_request" -> tx.destination = RemembrancerAddress
      [] pattern_id = "image_gen" ->
            tx.destination = NodeAddress /\ tx.pft_amount * 100 >= IMAGE_GEN_COST_HUNDREDTHS
      [] pattern_id = "nft_mint" ->
            tx.destination = NodeAddress /\ tx.pft_amount >= NFT_MINT_COST

\* A rule that asks for a later response in every configuration
should_require_after_request_always(cfg) == TRUE

\* InitiationRiteRule._should_require_after_request
should_require_after_request(cfg) == cfg.USE_TESTNET /\ cfg.ENABLE_REINITIATIONS

\* The parameters of the find_transaction_response query
ResponseQuery(acct, dest, time, mtype, mdata, after) ==
    [ account |-> acct, destination |-> dest, request_time |-> time,
      response_memo_type |-> mtype, response_memo_data |-> mdata,
      require_after_request |-> after ]

\* A slip in a rule: the response is looked for without the time constraint
find_response_any_time(pattern_id, request_tx, cfg) ==
    ResponseQuery(request_tx.account, request_tx.destination, request_tx.datetime,
        CASE pattern_id = "initiation_rite" -> INITIATION_REWARD
          [] pattern_id = "handshake_request" -> HANDSHAKE
          [] pattern_id = "odv_request" -> request_tx.memo_type \o << "_response" >>
          [] pattern_id = "nft_mint" -> derive_response_memo_type(request_tx.memo_type, NFT_MINT_RESPONSE)
          [] OTHER -> request_tx.memo_type,
        CASE pattern_id = "request_post_fiat" -> regex_to_sql_pattern(PROPOSAL_PATTERN)
          [] pattern_id = "task_output" -> regex_to_sql_pattern(VERIFICATION_PROMPT_PATTERN)
          [] pattern_id = "verification_response" -> regex_to_sql_pattern(REWARD_PATTERN)
          [] pattern_id = "image_gen" -> regex_to_sql_pattern(IMAGE_RESPONSE_PATTERN)
          [] OTHER -> NoPattern,
        FALSE)

\* find_response of the request rule registered for pattern_id
find_response(pattern_id, request_tx, cfg) ==
    CASE pattern_id = "initiation_rite" ->
            ResponseQuery(request_tx.account, request_tx.destination, request_tx.datetime,
                          INITIATION_REWARD, NoPattern, should_require_after_request(cfg))
      [] pattern_id = "handshake_request" ->
            ResponseQuery(request_tx.account, request_tx.destination, request_tx.datetime,
                          HANDSHAKE, NoPattern, TRUE)
      [] pattern_id = "request_post_fiat" ->
            ResponseQuery(request_tx.account, request_tx.destination, request_tx.datetime,
                          request_tx.memo_type, regex_to_sql_pattern(PROPOSAL_PATTERN), TRUE)
      [] pattern_id = "task_output" ->
            ResponseQuery(request_tx.account, request_tx.destination, request_tx.datetime,
                          request_tx.memo_type, regex_to_sql_pattern(VERIFICATION_PROMPT_PATTERN), TRUE)
      [] pattern_id = "verification_response" ->
            ResponseQuery(request_tx.account, request_tx.destination, request_tx.datetime,
                          request_tx.memo_type, regex_to_sql_pattern(REWARD_PATTERN), TRUE)
      [] pattern_id = "odv_request" ->
            ResponseQuery(request_tx.account, request_tx.destination, request_tx.datetime,
                          request_tx.memo_type \o << "_response" >>, NoPattern, TRUE)
      [] pattern_id = "image_gen" ->
            ResponseQuery(request_tx.account, request_tx.destination, request_tx.datetime,
                          request_tx.memo_type, regex_to_sql_pattern(IMAGE_RESPONSE_PATTERN), TRUE)
      [] pattern_id = "nft_mint" ->
            ResponseQuery(request_tx.account, request_tx.destination, request_tx.datetime,
                          derive_response_memo_type(request_tx.memo_type, NFT_MINT_RESPONSE),
                          NoPattern, TRUE)

\* The SQL function find_transaction_response run on the ledger: is there a
\* successful transaction sent to the requester by the account that received
\* the request, with the response memo type (and memo data pattern), and not
\* earlier than the request when the response must come after it
find_transaction_response(query, ledger) ==
    \E i \in 1..Len(ledger) :
        /\ ledger[i].success
        /\ ledger[i].account = query.destination
        /\ ledger[i].destination = query.account
        /\ ledger[i].memo_type = query.response_memo_type
        /\ query.response_memo_data # NoPattern => Like(ledger[i].memo_data, query.response_memo_data)
        /\ query.require_after_request => ledger[i].datetime >= query.request_time

\* ------------------------------------------------------------------------
\* Response generators: evaluate_request and construct_response
\* ------------------------------------------------------------------------

\* What the collaborators return during one evaluation: the text of the
\* language model and whether the other external calls (task generation,
\* minting, image generation, handshake lookup) succeed
RewardScoreLow == << RewardMarker, " ", "1", "0" >>
RewardScoreHuge == << RewardMarker, "9", "9", "9", "9" >>
InitiationScore == << "| Reward |", "1", "0" >>
InitiationScoreNegative == << "| Reward |", "-", "9" >>

\* What the collaborators return in the task lifecycle
TaskExternals == [ content : { RewardScoreHuge }, ok : BOOLEAN ]

\* What the collaborators return for the requests of all graphs
Externals ==
    [ content : { RewardScoreLow, InitiationScore, InitiationScoreNegative },
      ok : BOOLEAN ]

\* An evaluation or construction that raised
Raised == [ ok |-> FALSE ]

\* ResponseParameters with its memo: what the node is to send
ResponseParameters(src, dest, mtype, mdata, mformat, pft) ==
    [ ok |-> TRUE, source |-> src, destination |-> dest, memo_type |-> mtype,
      memo_data |-> mdata, memo_format |-> mformat, pft_amount |-> pft ]

\* SELECT memo_data FROM decoded_memos WHERE <the rows idx> ORDER BY datetime
\* DESC LIMIT 1: the memo data of a latest row (rows of equal datetime come
\* in no specified order)
QueryLatest(ledger, idx) ==
    { ledger[k].memo_data :
        k \in { i \in idx : \A m \in idx : ledger[i].datetime >= ledger[m].datetime } }

\* VerificationPromptGenerator._get_original_task_description and the
\* proposal query of RewardResponseGenerator._get_task_context
ProposalResults(memo_type, ledger) ==
    QueryLatest(ledger,
        { i \in 1..Len(ledger) :
            /\ ledger[i].memo_type = memo_type
            /\ ledger[i].success
            /\ Like(ledger[i].memo_data, regex_to_sql_pattern(PROPOSAL_PATTERN)) })

\* The verification prompt query of RewardResponseGenerator._get_task_context
PromptResults(request_tx, ledger) ==
    QueryLatest(ledger,
        { i \in 1..Len(ledger) :
            /\ ledger[i].memo_type = request_tx.memo_type
            /\ ledger[i].success
            /\ Like(ledger[i].memo_data, regex_to_sql_pattern(VERIFICATION_PROMPT_PATTERN))
            /\ ledger[i].destination = request_tx.account })

TaskContext(request_tx, initial_task, verification_prompt) ==
    [ initial_task |-> initial_task,
      verification_prompt |-> verification_prompt,
      verification_response |-> request_tx.memo_data,
      proposed_reward |-> Strip(AfterLast(initial_task, "..")) ]

\* A slip the hard error guards against: a missing proposal or prompt is
\* replaced by an empty text
get_task_context_defaulting(request_tx, ledger) ==
    LET proposals == IF ProposalResults(request_tx.memo_type, ledger) = {}
                     THEN { EmptyText } ELSE ProposalResults(request_tx.memo_type, ledger)
        prompts == IF PromptResults(request_tx, ledger) = {}
                   THEN { EmptyText } ELSE PromptResults(request_tx, ledger)
    IN  { TaskContext(request_tx, p, v) : p \in proposals, v \in prompts }

\* RewardResponseGenerator._get_task_context: the contexts it can return;
\* the empty set when it raises ValueError (no proposal or no prompt found)
get_task_context(request_tx, ledger) ==
    { TaskContext(request_tx, p, v) :
          p \in ProposalResults(request_tx.memo_type, ledger),
          v \in PromptResults(request_tx, ledger) }

\* InitiationRewardGenerator.evaluate_request
InitiationRewardGenerator_evaluate_request(request_tx, ext) ==
    LET field == Strip(RemoveToken(AfterLast(ext.content, "| Reward |"), "|"))
    IN  IF IntParses(field)
        THEN { [ ok |-> TRUE, reward |-> IntOf(field), justification |-> << "welcome" >> ] }
        ELSE { Raised }

\* HandshakeResponseGenerator.evaluate_request (_determine_secret_type raises
\* for an address that is neither the node nor the remembrancer)
HandshakeResponseGenerator_evaluate_request(request_tx, ext) ==
    IF request_tx.destination \in { NodeAddress, RemembrancerAddress }
    THEN { [ ok |-> TRUE, destination |-> request_tx.account, ecdh_key |-> << "nodekey" >>,
             source |-> request_tx.destination ] }
    ELSE { Raised }

\* ProposalResponseGenerator.evaluate_request with
\* NewTaskGeneration.process_task_map_to_proposed_pf: the proposal string is
\* the stage literal, the generated task, ' .. ' and REWARD_AMOUNT
ProposalResponseGenerator_evaluate_request(request_tx, ext) ==
    IF ext.ok
    THEN { [ ok |-> TRUE,
             pf_proposal_string |-> TaskTypeValue("PROPOSAL") \o << "taskA" >>
                                        \o << " ", "..", " " >> \o << "900" >> ] }
    ELSE { Raised }

\* VerificationPromptGenerator.evaluate_request
VerificationPromptGenerator_evaluate_request(request_tx, ledger, ext) ==
    IF ProposalResults(request_tx.memo_type, ledger) = {}
    THEN { Raised }
    ELSE { [ ok |-> TRUE, verification_question |-> << "prove" >>, original_task |-> p ] :
               p \in ProposalResults(request_tx.memo_type, ledger) }

\* RewardResponseGenerator.evaluate_request (the context is kept with the
\* result for reference)
RewardResponseGenerator_evaluate_request(request_tx, ledger, ext) ==
    IF get_task_context(request_tx, ledger) = {}
    THEN { Raised }
    ELSE { [ ok |-> TRUE, reward_amount |-> extract_pft_reward(ext.content),
             summary |-> << "good" >>, context |-> c ] :
               c \in get_task_context(request_tx, ledger) }

\* ODVResponseGenerator.evaluate_request
ODVResponseGenerator_evaluate_request(request_tx, ext) ==
    { [ ok |-> TRUE, odv_response |-> << "ODV SYSTEM: " >> \o ext.content ] }

\* ImageResponseGenerator.evaluate_request (_extract_prompt: the memo data
\* must start with the prefix; a failed generation or pin gives no hash)
ImageResponseGenerator_evaluate_request(request_tx, ext) ==
    IF /\ request_tx.memo_data # << >>
       /\ Head(request_tx.memo_data) = "GENERATE IMAGE ___"
       /\ ext.ok
    THEN { [ ok |-> TRUE, ipfs_hash |-> "QmHash" ] }
    ELSE { [ ok |-> TRUE, ipfs_hash |-> "None" ] }

\* NFTMintResponseGenerator.evaluate_request (an empty uri, a failed mint or
\* a failed sell offer give no offer id)
NFTMintResponseGenerator_evaluate_request(request_tx, ext) ==
    IF Strip(request_tx.memo_data) # << >> /\ ext.ok
    THEN { [ ok |-> TRUE, offer_id |-> "OFFER1" ] }
    ELSE { [ ok |-> TRUE, offer_id |-> "None" ] }

\* evaluate_request of the generator that answers pattern_id: the set of
\* results it can return
evaluate_request(pattern_id, request_tx, ledger, ext) ==
    CASE pattern_id = "initiation_rite" -> InitiationRewardGenerator_evaluate_request(request_tx, ext)
      [] pattern_id = "handshake_request" -> HandshakeResponseGenerator_evaluate_request(request_tx, ext)
      [] pattern_id = "request_post_fiat" -> ProposalResponseGenerator_evaluate_request(request_tx, ext)
      [] pattern_id = "task_output" -> VerificationPromptGenerator_evaluate_request(request_tx, ledger, ext)
      [] pattern_id = "verification_response" -> RewardResponseGenerator_evaluate_request(request_tx, ledger, ext)
      [] pattern_id = "odv_request" -> ODVResponseGenerator_evaluate_request(request_tx, ext)
      [] pattern_id = "image_gen" -> ImageResponseGenerator_evaluate_request(request_tx, ext)
      [] pattern_id = "nft_mint" -> NFTMintResponseGenerator_evaluate_request(request_tx, ext)

\* InitiationRewardGenerator.construct_response
InitiationRewardGenerator_construct_response(request_tx, evaluation_result) ==
    ResponseParameters(NodeAddress, request_tx.account, INITIATION_REWARD,
                       evaluation_result.justification, "node", evaluation_result.reward)

\* HandshakeResponseGenerator.construct_response (the source is the address
\* that received the request, the memo is construct_handshake_memo)
HandshakeResponseGenerator_construct_response(request_tx, evaluation_result) ==
    ResponseParameters(evaluation_result.source, evaluation_result.destination, HANDSHAKE,
                       evaluation_result.ecdh_key, evaluation_result.destination, 0)

\* ProposalResponseGenerator.construct_response
ProposalResponseGenerator_construct_response(request_tx, evaluation_result) ==
    ResponseParameters(NodeAddress, request_tx.account, request_tx.memo_type,
                       evaluation_result.pf_proposal_string, "node", 1)

\* A verification prompt sent without its stage literal
VerificationPromptGenerator_construct_response_unmarked(request_tx, evaluation_result) ==
    ResponseParameters(NodeAddress, request_tx.account, request_tx.memo_type,
                       evaluation_result.verification_question, "node", 1)

\* VerificationPromptGenerator.construct_response
VerificationPromptGenerator_construct_response(request_tx, evaluation_result) ==
    ResponseParameters(NodeAddress, request_tx.account, request_tx.memo_type,
                       TaskTypeValue("VERIFICATION_PROMPT") \o evaluation_result.verification_question,
                       "node", 1)

\* A slip the routing claim guards against: the reward goes to the address
\* the request was sent to
RewardResponseGenerator_construct_response_misrouted(request_tx, evaluation_result) ==
    ResponseParameters(NodeAddress, request_tx.destination, request_tx.memo_type,
                       TaskTypeValue("REWARD") \o evaluation_result.summary,
                       "node", evaluation_result.reward_amount)

\* RewardResponseGenerator.construct_response
RewardResponseGenerator_construct_response(request_tx, evaluation_result) ==
    ResponseParameters(NodeAddress, request_tx.account, request_tx.memo_type,
                       TaskTypeValue("REWARD") \o evaluation_result.summary,
                       "node", evaluation_result.reward_amount)

\* A construction that never encrypts its answer
ODVResponseGenerator_construct_response_plain(request_tx, evaluation_result, ext) ==
    ResponseParameters(RemembrancerAddress, request_tx.account,
                       request_tx.memo_type \o << "_response" >>,
                       evaluation_result.odv_response, "odv", 0)

\* ODVResponseGenerator.construct_response: the answer to an encrypted
\* request is encrypted with the shared secret; without handshake keys
\* HandshakeRequiredException is raised
ODVResponseGenerator_construct_response(request_tx, evaluation_result, ext) ==
    LET was_encrypted == \E i \in 1..Len(request_tx.memo_data) : request_tx.memo_data[i] = "[Decrypted]"
    IN  IF was_encrypted /\ ~ext.ok
        THEN Raised
        ELSE ResponseParameters(RemembrancerAddress, request_tx.account,
                                request_tx.memo_type \o << "_response" >>,
                                IF was_encrypted
                                THEN << "WHISPER__" >> \o evaluation_result.odv_response
                                ELSE evaluation_result.odv_response,
                                "odv", 0)

\* ImageResponseGenerator.construct_response
ImageResponseGenerator_construct_response(request_tx, evaluation_result) ==
    IF evaluation_result.ipfs_hash = "None"
    THEN Raised
    ELSE ResponseParameters(NodeAddress, request_tx.account, request_tx.memo_type,
                            TaskTypeValue("IMAGE_GEN_RESPONSE")
                                \o << " ipfs hash: ", evaluation_result.ipfs_hash >>,
                            "node", 0)

\* A construction that does not look at the offer id it is given
NFTMintResponseGenerator_construct_response_unchecked(request_tx, evaluation_result) ==
    ResponseParameters(NodeAddress, request_tx.account,
                       derive_response_memo_type(request_tx.memo_type, NFT_MINT_RESPONSE),
                       << "offer id: ", evaluation_result.offer_id >>, "node", 0)

\* NFTMintResponseGenerator.construct_response
NFTMintResponseGenerator_construct_response(request_tx, evaluation_result) ==
    IF evaluation_result.offer_id = "None"
    THEN Raised
    ELSE ResponseParameters(NodeAddress, request_tx.account,
                            derive_response_memo_type(request_tx.memo_type, NFT_MINT_RESPONSE),
                            << "offer id: ", evaluation_result.offer_id >>, "node", 0)

\* construct_response of the generator that answers pattern_id
construct_response(pattern_id, request_tx, evaluation_result, ext) ==
    CASE pattern_id = "initiation_rite" ->
            InitiationRewardGenerator_construct_response(request_tx, evaluation_result)
      [] pattern_id = "handshake_request" ->
            HandshakeResponseGenerator_construct_response(request_tx, evaluation_result)
      [] pattern_id = "request_post_fiat" ->
            ProposalResponseGenerator_construct_response(request_tx, evaluation_result)
      [] pattern_id = "task_output" ->
            VerificationPromptGenerator_construct_response(request_tx, evaluation_result)
      [] pattern_id = "verification_response" ->
            RewardResponseGenerator_construct_response(request_tx, evaluation_result)
      [] pattern_id = "odv_request" ->
            ODVResponseGenerator_construct_response(request_tx, evaluation_result, ext)
      [] pattern_id = "image_gen" ->
            ImageResponseGenerator_construct_response(request_tx, evaluation_result)
      [] pattern_id = "nft_mint" ->
            NFTMintResponseGenerator_construct_response(request_tx, evaluation_result)

\* ------------------------------------------------------------------------
\* The node working through the requests of the ledger
\* (core_business_logic.py, module docstring "Example Flow")
\* ------------------------------------------------------------------------
Idle == [ pc |-> "idle" ]

\* The transactions that entered the ledger after the node started
Appended(ledger) == Cardinality({ i \in 1..Len(ledger) : ledger[i].datetime > 0 })
NoResponse == [ ok |-> FALSE ]

\* The evaluation of the request is over: how it ended
Finished(status, response) ==
    [ pc |-> "done", status |-> status, idx |-> cur.idx, pattern_id |-> cur.pattern_id,
      checked_at |-> cur.checked_at, response |-> response ]

\* Step 1-3: a successful transaction of the ledger matches a request
\* pattern and passes the rule's validate
Pickup(i, pattern_id) ==
    /\ cur.pc \in { "idle", "done" }
    /\ i \in 1..Len(log)
    /\ log[i].success
    /\ MatchesPattern(pattern_id, log[i])
    /\ validate(pattern_id, log[i])
    /\ cur' = [ pc |-> "check", idx |-> i, pattern_id |-> pattern_id, checked_at |-> 0 ]
    /\ UNCHANGED << log, clock, config, reduceVars, rewardVars, otherVars >>

\* Step 4: the ledger is searched for a valid response to the request; a
\* request that has one is fulfilled
CheckResponse ==
    /\ cur.pc = "check"
    /\ IF find_transaction_response(find_response(cur.pattern_id, log[cur.idx], config), log)
       THEN cur' = [ Finished("answered", NoResponse) EXCEPT !.checked_at = Len(log) ]
       ELSE cur' = [ cur EXCEPT !.pc = "evaluate", !.checked_at = Len(log) ]
    /\ UNCHANGED << log, clock, config, reduceVars, rewardVars, otherVars >>

\* Step 5-6: the generator of the response rule evaluates the request and
\* constructs the response; an exception ends the evaluation
Generate(ext) ==
    /\ cur.pc = "evaluate"
    /\ \E evaluation_result \in evaluate_request(cur.pattern_id, log[cur.idx], log, ext) :
          IF ~evaluation_result.ok
          THEN cur' = Finished("evaluate_raised", NoResponse)
          ELSE LET response == construct_response(cur.pattern_id, log[cur.idx], evaluation_result, ext)
               IN  IF ~response.ok
                   THEN cur' = Finished("construct_raised", NoResponse)
                   ELSE cur' = [ pc |-> "send", idx |-> cur.idx, pattern_id |-> cur.pattern_id,
                                 checked_at |-> cur.checked_at,
                                 evaluation_result |-> evaluation_result,
                                 response |-> response ]
    /\ UNCHANGED << log, clock, config, reduceVars, rewardVars, otherVars >>

\* Step 7-9: the response is submitted to the ledger (the transaction can
\* fail there) and the request is done
Send(ok) ==
    /\ cur.pc = "send"
    /\ Appended(log) < MaxAppended
    /\ log' = Append(log, EventP(cur.response.source, cur.response.destination,
                                 cur.response.memo_type, cur.response.memo_data,
                                 clock, ok, cur.response.pft_amount))
    /\ cur' = Finished("sent", cur.response)
    /\ UNCHANGED << clock, config, reduceVars, rewardVars, otherVars >>

\* The ledger closes and time moves on
Tick ==
    /\ clock < MaxTime
    /\ clock' = clock + 1
    /\ UNCHANGED << log, config, cur, reduceVars, rewardVars, otherVars >>

\* A user submits a memo transaction
Submit(tx) ==
    /\ Appended(log) < MaxAppended
    /\ log' = Append(log, [ tx EXCEPT !.datetime = clock ])
    /\ UNCHANGED << clock, config, cur, reduceVars, rewardVars, otherVars >>

Configs == [ USE_TESTNET : BOOLEAN, ENABLE_REINITIATIONS : BOOLEAN ]

\* The variables of the parts a specification does not use stay as they are
ReduceIdle ==
    /\ input = << >> /\ records = << >> /\ prevInput = << >>
    /\ prevRecords = << >> /\ lastOp = "idle"

RewardIdle == llm_content = << >> /\ reward_amount = 0 /\ extracted = FALSE

NodeIdle ==
    /\ log = << >> /\ clock = 0 /\ cur = Idle
    /\ config = [ USE_TESTNET |-> FALSE, ENABLE_REINITIATIONS |-> FALSE ]

NotCalled == [ called |-> FALSE ]

LifeIdle ==
    /\ history = << >> /\ task_pairs = << >> /\ prev_pairs = << >>
    /\ reached = "idle" /\ extras = 0

ClassIdle == memo_value = [ kind |-> "str", text |-> << >> ] /\ classified = NotCalled

GraphIdle == graph = << >>

ProposalIdle ==
    task_text = << >> /\ pf_proposal_string = << >> /\ proposed_reward = NotCalled

CorbanuIdle == memo_history = << >> /\ corbanu_sent = NotCalled

LikeIdle == like_input = << >> /\ like_result = NotCalled

MinterIdle ==
    /\ minter_pc = "idle" /\ mint_result = NotCalled /\ offer_result = NotCalled
    /\ nft_result = NotCalled /\ accept_result = NotCalled /\ submitted = << >>

MarchIdle ==
    /\ use_testnet = FALSE /\ settings_objects = << >> /\ user_deathmarch_settings = 0
    /\ checker_tasks = << >> /\ death_march_tasks = 0
    /\ starts = << >> /\ payments = << >>

ReplyIdle ==
    user_questions = 0 /\ asked = 0 /\ replies = << >> /\ reward_txs = << >>

SideIdle == MinterIdle /\ MarchIdle /\ ReplyIdle

ExtIdle == ProposalIdle /\ CorbanuIdle /\ LikeIdle /\ SideIdle

OtherIdle == LifeIdle /\ ClassIdle /\ GraphIdle /\ ExtIdle

\* ------------------------------------------------------------------------
\* Specifications of the reducer and of the reward extraction
\* ------------------------------------------------------------------------

SpecReduceInit == ReduceInit /\ RewardIdle /\ NodeIdle /\ OtherIdle
SpecReduce == SpecReduceInit /\ [][ReduceNext]_vars

SpecRewardInit == RewardInit /\ ReduceIdle /\ NodeIdle /\ OtherIdle
SpecReward == SpecRewardInit /\ [][RewardNext]_vars

\* ------------------------------------------------------------------------
\* The reducer applied to a memo history that grows (specification
\* SpecLifecycle)
\* ------------------------------------------------------------------------

\* The memo each stage of a task is written with, and who sends it
StageMemo(kind) ==
    CASE kind = "PROPOSAL"              -> ProposalA
      [] kind = "ACCEPTANCE"            -> AcceptanceMemo
      [] kind = "REFUSAL"               -> RefusalMemo
      [] kind = "TASK_OUTPUT"           -> TaskOutputMemo
      [] kind = "VERIFICATION_PROMPT"   -> VerificationPromptMemo
      [] kind = "VERIFICATION_RESPONSE" -> VerificationResponseMemo
      [] kind = "REWARD"                -> RewardMemo

SentByNode(kind) == kind \in { "PROPOSAL", "VERIFICATION_PROMPT", "REWARD" }

StageEvent(id, mdata, kind, t) ==
    IF SentByNode(kind)
    THEN Event(NodeAddress, "rU1", << id >>, mdata, t, TRUE)
    ELSE Event("rU1", NodeAddress, << id >>, mdata, t, TRUE)

\* The stages a task may legally enter next (Refusal and Reward are final)
LegalSuccessors(kind) ==
    CASE kind = "idle"                  -> { "PROPOSAL" }
      [] kind = "PROPOSAL"              -> { "ACCEPTANCE", "REFUSAL" }
      [] kind = "ACCEPTANCE"            -> { "TASK_OUTPUT", "REFUSAL" }
      [] kind = "TASK_OUTPUT"           -> { "VERIFICATION_PROMPT", "REFUSAL" }
      [] kind = "VERIFICATION_PROMPT"   -> { "VERIFICATION_RESPONSE", "REFUSAL" }
      [] kind = "VERIFICATION_RESPONSE" -> { "REWARD", "REFUSAL" }
      [] OTHER                          -> { }

LifecycleKinds ==
    { "PROPOSAL", "ACCEPTANCE", "REFUSAL", "TASK_OUTPUT", "VERIFICATION_PROMPT",
      "VERIFICATION_RESPONSE", "REWARD" }

\* The latest datetime of a history, 0 for the empty history
RECURSIVE LatestTime(_)
LatestTime(rows) ==
    IF rows = << >> THEN 0 ELSE Max(Head(rows).datetime, LatestTime(Tail(rows)))

LifecycleInit ==
    /\ history = << >>
    /\ task_pairs \in get_task_state_pairs(history)
    /\ prev_pairs = task_pairs
    /\ reached = "idle"
    /\ extras = 0

\* The next event of the lifecycle of task T1 arrives and the history is
\* reduced again. The event is later than all events before it; two events
\* the user sends one after the other may carry the same close time.
LifecycleEvent(kind, t) ==
    /\ kind \in LegalSuccessors(reached)
    /\ \/ t = LatestTime(history) + 1
       \/ /\ t = LatestTime(history)
          /\ history # << >>
          /\ ~SentByNode(kind)
          /\ history[Len(history)].account = "rU1"
          /\ history[Len(history)].datetime = t
    /\ history' = Append(history, StageEvent("T1", StageMemo(kind), kind, t))
    /\ task_pairs' \in get_task_state_pairs(history')
    /\ prev_pairs' = task_pairs
    /\ reached' = kind
    /\ extras' = extras
    /\ UNCHANGED << reduceVars, rewardVars, nodeVars, classVars, graphVars, extVars >>

\* An event outside the lifecycle arrives (another proposal of the task, an
\* event that repeats or skips a stage, an event of a task whose proposal is
\* not in the history), dated before or after the events in the history; a
\* proposal may also carry the close time of the latest event
OtherEvent(id, mdata, kind, t) ==
    /\ extras < MaxExtras
    /\ \/ t \in { 0, LatestTime(history) + 1 }
       \/ t = LatestTime(history) /\ kind = "PROPOSAL"
    /\ history' = Append(history, StageEvent(id, mdata, kind, t))
    /\ task_pairs' \in get_task_state_pairs(history')
    /\ prev_pairs' = task_pairs
    /\ extras' = extras + 1
    /\ reached' = reached
    /\ UNCHANGED << reduceVars, rewardVars, nodeVars, classVars, graphVars, extVars >>

\* The events that arrive outside the lifecycle: for task T1 another
\* proposal, an acceptance or a reward; for task T2 a proposal, an
\* acceptance or a task output
OtherEvents ==
    { << "T1", ProposalB, "PROPOSAL" >>, << "T2", ProposalA, "PROPOSAL" >> }
    \cup { << "T1", StageMemo(kind), kind >> :
              kind \in { "ACCEPTANCE", "REWARD" } }
    \cup { << "T2", StageMemo(kind), kind >> : kind \in { "ACCEPTANCE", "TASK_OUTPUT" } }

LifecycleNext ==
    \/ \E kind \in LifecycleKinds, t \in 1..(Cardinality(LifecycleKinds) + MaxExtras) :
           LifecycleEvent(kind, t)
    \/ \E e \in OtherEvents, t \in 0..(Cardinality(LifecycleKinds) + MaxExtras) :
           OtherEvent(e[1], e[2], e[3], t)

SpecLifecycleInit ==
    LifecycleInit /\ ReduceIdle /\ RewardIdle /\ NodeIdle /\ ClassIdle /\ GraphIdle /\ ExtIdle

SpecLifecycle == SpecLifecycleInit /\ [][LifecycleNext]_vars

\* The keys of the result: the memo types of the tasks
TaskKeys == { << id >> : id \in TaskIds }
T1 == << "T1" >>
T2 == << "T2" >>

\* The events of a task id in the history whose kind is one of kinds
EventsOf(id, kinds) ==
    { i \in 1..Len(history) :
          /\ history[i].memo_type = id
          /\ classify_task_string(history[i].memo_data) \in kinds }

\* Event i is dated no later (no earlier) than every event of idx
EarliestOf(i, idx) == \A j \in idx : history[i].datetime <= history[j].datetime
LatestOf(i, idx) == \A j \in idx : history[i].datetime >= history[j].datetime

\* C11: for every task id with a Proposal event, the record's proposal text
\* is the text of a Proposal event of that id with the earliest timestamp;
\* Proposal events with a later timestamp never replace it
C11_FirstProposalKept ==
    \A id \in TaskKeys :
        EventsOf(id, { "PROPOSAL" }) # { } =>
            /\ id \in DOMAIN task_pairs
            /\ \E i \in EventsOf(id, { "PROPOSAL" }) :
                   /\ EarliestOf(i, EventsOf(id, { "PROPOSAL" }))
                   /\ task_pairs[id].proposal = history[i].memo_data

\* C11 witness: a second proposal of T1 with another text and an earlier
\* timestamp arrived after the first one, and the record holds its text
C11_Witness ==
    \E i, j \in EventsOf(T1, { "PROPOSAL" }) :
        /\ j < i
        /\ history[i].datetime < history[j].datetime
        /\ history[i].memo_data # history[j].memo_data
        /\ task_pairs[T1].proposal = history[i].memo_data

\* The record's state is the kind of an event with the latest timestamp
\* among the events of the id whose kind is one of kinds, PROPOSAL when the
\* id has no such event
StateIsLatestOf(kinds) ==
    \A id \in DOMAIN task_pairs :
        IF EventsOf(id, kinds) = { }
        THEN task_pairs[id].state_type = "PROPOSAL"
        ELSE \E i \in EventsOf(id, kinds) :
                 /\ LatestOf(i, EventsOf(id, kinds))
                 /\ task_pairs[id].state_type = classify_task_string(history[i].memo_data)

OrphansKept(kinds) ==
    \A id \in TaskKeys :
        (EventsOf(id, kinds) # { } /\ EventsOf(id, { "PROPOSAL" }) = { }) =>
            /\ id \in DOMAIN task_pairs
            /\ task_pairs[id].proposal = EmptyText

RECURSIVE ReachableStages(_)
ReachableStages(kind) ==
    { kind } \cup UNION { ReachableStages(next) : next \in LegalSuccessors(kind) }

\* C14: while the events of task T1 form a legal lifecycle sequence, the
\* state reported after an event is appended is the state reported before
\* or a stage reachable from it along the legal transitions; the reported
\* state never moves back and the task never leaves the result
C14_StateOnlyAdvances ==
    (extras = 0 /\ T1 \in DOMAIN prev_pairs) =>
        /\ T1 \in DOMAIN task_pairs
        /\ task_pairs[T1].state_type \in ReachableStages(prev_pairs[T1].state_type)

\* C14 witness: a complete legal lifecycle; the reward moved the reported
\* state from the verification prompt to the reward
C14_Witness ==
    /\ extras = 0 /\ reached = "REWARD"
    /\ T1 \in DOMAIN prev_pairs
    /\ prev_pairs[T1].state_type = "VERIFICATION_PROMPT"
    /\ task_pairs[T1].state_type = "REWARD"

\* C26: the reducer does not enforce the legality of transitions: an
\* Acceptance event of a task id dated after a Reward event of the id, and
\* after every other state change of the id, leaves the record in state
\* ACCEPTANCE
C26_IllegalTransitionReported ==
    \A id \in TaskKeys :
        \A i \in EventsOf(id, { "ACCEPTANCE" }), j \in EventsOf(id, { "REWARD" }) :
            ( /\ history[i].datetime > history[j].datetime
              /\ \A k \in EventsOf(id, StateChangeTypes) \ EventsOf(id, { "ACCEPTANCE" }) :
                     history[i].datetime > history[k].datetime ) =>
                /\ id \in DOMAIN task_pairs
                /\ task_pairs[id].state_type = "ACCEPTANCE"

\* C26 witness: task T1 went through its whole lifecycle to the Reward, an
\* Acceptance dated after the Reward arrived, and the record of T1 is in
\* state ACCEPTANCE
C26_Witness ==
    /\ reached = "REWARD"
    /\ \E i \in EventsOf(T1, { "ACCEPTANCE" }), j \in EventsOf(T1, { "REWARD" }) :
           /\ j < i
           /\ history[i].datetime > history[j].datetime
    /\ task_pairs[T1].state_type = "ACCEPTANCE"
    /\ task_pairs[T1].proposal = ProposalA

\* Python: s.replace(pat, '') for a needle of several pieces
RECURSIVE RemoveAll(_, _)
RemoveAll(s, pat) ==
    IF Len(s) < Len(pat) THEN s
    ELSE IF SubSeq(s, 1, Len(pat)) = pat
         THEN RemoveAll(SubSeq(s, Len(pat) + 1, Len(s)), pat)
         ELSE << Head(s) >> \o RemoveAll(Tail(s), pat)

\* The index of task_pairs: the task ids with a proposal in groupby's sorted
\* order, then the orphaned ids
task_pairs_index(pairs) ==
    SelectSeq(<< T1, T2 >>,
              LAMBDA id : id \in DOMAIN pairs /\ pairs[id].proposal # EmptyText)
    \o SelectSeq(<< T1, T2 >>,
                 LAMBDA id : id \in DOMAIN pairs /\ pairs[id].proposal = EmptyText)

\* One row of a frame of proposals: the index (task id) and the proposal
\* column with the stage literal and 'nan' removed
ProposalRow(pairs, id) ==
    [ task_id |-> id,
      proposal |-> RemoveToken(RemoveAll(pairs[id].proposal, TaskTypeValue("PROPOSAL")),
                               "nan") ]

\* get_proposals_by_state on the reduced history, the proposal column: the
\* rows of task_pairs whose state_type is the name of the state asked for
get_proposals_by_state(pairs, state_type) ==
    LET ids == SelectSeq(task_pairs_index(pairs),
                         LAMBDA id : pairs[id].state_type = state_type)
    IN  [ k \in 1..Len(ids) |-> ProposalRow(pairs, ids[k]) ]

\* pandas drop_duplicates(): of the rows with equal column values (the index
\* does not count) the first one is kept
drop_duplicates(rows) ==
    SelectSeq([ k \in 1..Len(rows) |-> [ row |-> rows[k], pos |-> k ] ],
              LAMBDA e : \A j \in 1..(e.pos - 1) : rows[j].proposal # e.row.proposal)

\* get_refuseable_proposals on the reduced history: the task ids of the rows
\* it returns
get_refuseable_proposals(pairs) ==
    LET all_proposals == get_proposals_by_state(pairs, "PROPOSAL")
                         \o get_proposals_by_state(pairs, "ACCEPTANCE")
                         \o get_proposals_by_state(pairs, "VERIFICATION_PROMPT")
        kept == drop_duplicates(all_proposals)
    IN  { kept[k].row.task_id : k \in 1..Len(kept) }

\* C24: no task id for which a Refusal or Reward event exists is in the
\* result of get_refuseable_proposals, also when other lifecycle events of
\* the id arrive after the Refusal or Reward
C24_RefusedOrRewardedNotRefuseable ==
    \A id \in TaskKeys :
        EventsOf(id, { "REFUSAL", "REWARD" }) # { } =>
            id \notin get_refuseable_proposals(task_pairs)

\* C27: every task id whose reduced state is Proposal, Acceptance or
\* VerificationPrompt is in the result of get_refuseable_proposals, also when
\* two such tasks have the same proposal text or none
C27_RefuseableComplete ==
    \A id \in DOMAIN task_pairs :
        task_pairs[id].state_type \in { "PROPOSAL", "ACCEPTANCE", "VERIFICATION_PROMPT" } =>
            id \in get_refuseable_proposals(task_pairs)

\* C22: the proposal text the verification prompt and reward generators
\* look up as the original proposal of a task (the history read as the
\* ledger) is the proposal text the reducer records for the task, also when
\* the task id has several Proposal events
C22_ContextIsFirstProposal ==
    \A id \in DOMAIN task_pairs :
        \A p \in ProposalResults(id, history) : p = task_pairs[id].proposal

\* ------------------------------------------------------------------------
\* The classifier applied to memo_data values (specification SpecClassify)
\* ------------------------------------------------------------------------

\* The pieces memo texts are made of: the stage literals without their
\* trailing space, the space, the two dots of a proposal and a free word
MemoTokens ==
    { RStrip(TaskTypeValue(TaskTypeNames[k]))[1] : k \in 1..Len(TaskTypeNames) }
    \cup { " ", "..", "text" }

MemoValues ==
    { TextValue(string) : string \in SeqsUpTo(MemoTokens, MaxMemoTokens) } \cup MissingValues

ClassifyInit ==
    /\ memo_value \in MemoValues
    /\ classified = NotCalled

\* filter_tasks applies classify_task_string to the memo_data of a row
Classify ==
    /\ ~classified.called
    /\ classified' = classify_task_string_call(memo_value)
    /\ UNCHANGED << memo_value, reduceVars, rewardVars, nodeVars, lifeVars, graphVars, extVars >>

ClassifyNext == Classify

SpecClassifyInit ==
    ClassifyInit /\ ReduceIdle /\ RewardIdle /\ NodeIdle /\ LifeIdle /\ GraphIdle /\ ExtIdle

SpecClassify == SpecClassifyInit /\ [][ClassifyNext]_vars

\* The call returned a task type name or UNKNOWN for a text
Returned == classified.called /\ ~classified.raised

\* The entries of TASK_PATTERNS one of whose literals occurs in the text
MatchingRules(string) ==
    { k \in 1..Len(TaskPatternOrder) :
          \E pattern \in TaskPatterns(TaskPatternOrder[k]) : Contains(pattern, string) }

\* C15: classify_task_string returns the task type of the first rule, in
\* rule order, one of whose literals occurs in the text, and UNKNOWN when no
\* rule's literal occurs in the text
C15_FirstMatchingRule ==
    Returned =>
        LET matching == MatchingRules(memo_value.text)
        IN  IF matching = { }
            THEN classified.result = "UNKNOWN"
            ELSE \E k \in matching :
                     /\ \A m \in matching : k <= m
                     /\ classified.result = TaskPatternOrder[k]

\* C15 witness: a text with the literals of two rules was classified as the
\* earlier rule
C15_Witness ==
    /\ Returned
    /\ Cardinality(MatchingRules(memo_value.text)) >= 2
    /\ Contains(TaskTypeValue("REWARD"), memo_value.text)
    /\ Contains(TaskTypeValue("ACCEPTANCE"), memo_value.text)
    /\ classified.result = "ACCEPTANCE"

\* C16: classify_task_string never raises, for any memo data value of an
\* account history, a missing or non-text value included
C16_ClassifyNeverRaises == classified.called => ~classified.raised

\* The text starts with the stage literal of the task type
StartsWith(string, name) ==
    /\ Len(string) >= Len(TaskTypeValue(name))
    /\ SubSeq(string, 1, Len(TaskTypeValue(name))) = TaskTypeValue(name)

\* C17: a memo whose data starts with the stage literal of Acceptance,
\* Refusal, VerificationPrompt or Reward is classified as that stage,
\* whatever free text follows the literal
C17_StageLiteralWins ==
    \A name \in { "ACCEPTANCE", "REFUSAL", "VERIFICATION_PROMPT", "REWARD" } :
        (Returned /\ StartsWith(memo_value.text, name)) => classified.result = name

\* C18: the classifier says a memo data text is a Proposal exactly when
\* PROPOSAL_PATTERN matches it, with or without the space after the literal
C18_ProposalAgrees ==
    Returned =>
        ((classified.result = "PROPOSAL") <=> RegexMatches(PROPOSAL_PATTERN, memo_value.text))

\* ------------------------------------------------------------------------
\* The interaction graphs the three nodes build at startup (specification
\* SpecGraph): tasknode, imagenode and nftnode core_business_logic.py
\* ------------------------------------------------------------------------

ACCEPTANCE_PATTERN == DataRegex(TaskTypeValue("ACCEPTANCE"), FALSE)
REFUSAL_PATTERN == DataRegex(TaskTypeValue("REFUSAL"), FALSE)

\* MemoPattern(memo_format, memo_type, memo_data): a field that is not given
\* is the empty text (memo_format, memo_type) or the empty set (memo_data)
MemoPattern(memo_format, memo_type, memo_data) ==
    [ memo_format |-> memo_format, memo_type |-> memo_type, memo_data |-> memo_data ]

\* A system pattern: the memo type is a SystemMemoType value
SystemMemoPattern(memo_type) == MemoPattern("", memo_type[1], { })

\* A task pattern: the memo type matches TASK_ID_PATTERN and the memo data
\* matches a regular expression
TaskMemoPattern(memo_data) == MemoPattern("", "TASK_ID_PATTERN", { memo_data })

GOOGLE_DOC_LINK_PATTERN == SystemMemoPattern(<< "GOOGLE_DOC_CONTEXT_LINK" >>)
ODV_RESPONSE_PATTERN == MemoPattern("", "TASK_RESPONSE_ID_PATTERN", { })
CORBANU_REWARD_PATTERN ==
    MemoPattern("Corbanu", "TASK_ID_PATTERN", { DataRegex(<< "Corbanu Reward" >>, FALSE) })
NFT_MINT_PATTERN == MemoPattern("", NFT_MINT, { })
NFT_MINT_RESPONSE_PATTERN == MemoPattern("", NFT_MINT_RESPONSE, { })

\* One graph.add_pattern call of a create()
AddPatternCall(pattern_id, memo_pattern, transaction_type, valid_responses) ==
    [ pattern_id |-> pattern_id, memo_pattern |-> memo_pattern,
      transaction_type |-> transaction_type, valid_responses |-> valid_responses ]

\* tasknode TaskManagementRules.create(): its add_pattern calls in order
TaskManagementRules_create ==
    << AddPatternCall("initiation_rite", SystemMemoPattern(INITIATION_RITE), "REQUEST",
                      { SystemMemoPattern(INITIATION_REWARD) }),
       AddPatternCall("initiation_reward", SystemMemoPattern(INITIATION_REWARD), "RESPONSE", { }),
       AddPatternCall("google_doc_link", GOOGLE_DOC_LINK_PATTERN, "STANDALONE", { }),
       AddPatternCall("handshake_request", SystemMemoPattern(HANDSHAKE), "REQUEST",
                      { SystemMemoPattern(HANDSHAKE) }),
       AddPatternCall("handshake_response", SystemMemoPattern(HANDSHAKE), "RESPONSE", { }),
       AddPatternCall("request_post_fiat", TaskMemoPattern(REQUEST_POST_FIAT_PATTERN), "REQUEST",
                      { TaskMemoPattern(PROPOSAL_PATTERN) }),
       AddPatternCall("proposal", TaskMemoPattern(PROPOSAL_PATTERN), "RESPONSE", { }),
       AddPatternCall("acceptance", TaskMemoPattern(ACCEPTANCE_PATTERN), "STANDALONE", { }),
       AddPatternCall("refusal", TaskMemoPattern(REFUSAL_PATTERN), "STANDALONE", { }),
       AddPatternCall("task_output", TaskMemoPattern(TASK_OUTPUT_PATTERN), "REQUEST",
                      { TaskMemoPattern(VERIFICATION_PROMPT_PATTERN) }),
       AddPatternCall("verification_prompt", TaskMemoPattern(VERIFICATION_PROMPT_PATTERN),
                      "RESPONSE", { }),
       AddPatternCall("verification_response", TaskMemoPattern(VERIFICATION_RESPONSE_PATTERN),
                      "REQUEST", { TaskMemoPattern(REWARD_PATTERN) }),
       AddPatternCall("reward", TaskMemoPattern(REWARD_PATTERN), "RESPONSE", { }),
       AddPatternCall("odv_request", TaskMemoPattern(ODV_REQUEST_PATTERN), "REQUEST",
                      { ODV_RESPONSE_PATTERN }),
       AddPatternCall("odv_response", ODV_RESPONSE_PATTERN, "RESPONSE", { }),
       AddPatternCall("corbanu_reward", CORBANU_REWARD_PATTERN, "STANDALONE", { }),
       AddPatternCall("image_gen", TaskMemoPattern(IMAGE_GEN_PATTERN), "REQUEST",
                      { TaskMemoPattern(IMAGE_RESPONSE_PATTERN) }),
       AddPatternCall("image_gen_response", TaskMemoPattern(IMAGE_RESPONSE_PATTERN),
                      "RESPONSE", { }) >>

\* The response registered without a request that names it as valid response
ImageNodeRules_create_unanswered ==
    << AddPatternCall("image_gen", TaskMemoPattern(IMAGE_GEN_PATTERN), "REQUEST",
                      { TaskMemoPattern(IMAGE_GEN_PATTERN) }),
       AddPatternCall("image_gen_response", TaskMemoPattern(IMAGE_RESPONSE_PATTERN),
                      "RESPONSE", { }) >>

\* imagenode TaskManagementRules.create()
ImageNodeRules_create ==
    << AddPatternCall("image_gen", TaskMemoPattern(IMAGE_GEN_PATTERN), "REQUEST",
                      { TaskMemoPattern(IMAGE_RESPONSE_PATTERN) }),
       AddPatternCall("image_gen_response", TaskMemoPattern(IMAGE_RESPONSE_PATTERN),
                      "RESPONSE", { }) >>

\* The response registered with the pattern of the request
NFTMintRules_create_same_pattern ==
    << AddPatternCall("nft_mint", NFT_MINT_PATTERN, "REQUEST", { NFT_MINT_PATTERN }),
       AddPatternCall("nft_mint_response", NFT_MINT_PATTERN, "RESPONSE", { }) >>

\* The request registered with two valid responses, and the response with one
NFTMintRules_create_two_responses ==
    << AddPatternCall("nft_mint", NFT_MINT_PATTERN, "REQUEST",
                      { NFT_MINT_RESPONSE_PATTERN, NFT_MINT_PATTERN }),
       AddPatternCall("nft_mint_response", NFT_MINT_RESPONSE_PATTERN, "RESPONSE", { }) >>

\* nftnode NFTMintRules.create()
NFTMintRules_create ==
    << AddPatternCall("nft_mint", NFT_MINT_PATTERN, "REQUEST", { NFT_MINT_RESPONSE_PATTERN }),
       AddPatternCall("nft_mint_response", NFT_MINT_RESPONSE_PATTERN, "RESPONSE", { }) >>

NodeNames == { "tasknode", "imagenode", "nftnode" }

CreateCalls(node) ==
    CASE node = "tasknode"  -> TaskManagementRules_create
      [] node = "imagenode" -> ImageNodeRules_create
      [] node = "nftnode"   -> NFTMintRules_create

\* The three nodes start independently, each with an empty InteractionGraph
GraphInit == graph = [ node \in NodeNames |-> << >> ]

\* The create() of a node makes its next add_pattern call
AddPattern(node) ==
    /\ Len(graph[node]) < Len(CreateCalls(node))
    /\ graph' = [ graph EXCEPT ![node] = Append(@, CreateCalls(node)[Len(@) + 1]) ]
    /\ UNCHANGED << reduceVars, rewardVars, nodeVars, lifeVars, classVars, extVars >>

GraphNext == \E node \in NodeNames : AddPattern(node)

SpecGraphInit ==
    GraphInit /\ ReduceIdle /\ RewardIdle /\ NodeIdle /\ LifeIdle /\ ClassIdle /\ ExtIdle

SpecGraph == SpecGraphInit /\ [][GraphNext]_vars

\* create() of the node has returned its graph
Returned_graph(node) == Len(graph[node]) = Len(CreateCalls(node))

\* The memo patterns a graph holds under two different roles
TwoRolePatterns(node) ==
    { graph[node][i].memo_pattern : i \in
          { k \in 1..Len(graph[node]) :
                \E m \in 1..Len(graph[node]) :
                    /\ graph[node][m].memo_pattern = graph[node][k].memo_pattern
                    /\ graph[node][m].transaction_type # graph[node][k].transaction_type } }

C20_ResponsesHaveRequest ==
    \A node \in NodeNames :
        Returned_graph(node) =>
            \A i \in 1..Len(graph[node]) :
                graph[node][i].transaction_type = "RESPONSE" =>
                    \E k \in 1..Len(graph[node]) :
                        /\ graph[node][k].transaction_type = "REQUEST"
                        /\ graph[node][i].memo_pattern \in graph[node][k].valid_responses

\* C20 witness: the three graphs are built; the task node's reward pattern
\* is the valid response of its verification_response request
C20_Witness ==
    /\ \A node \in NodeNames : Returned_graph(node)
    /\ \E i, k \in 1..Len(graph["tasknode"]) :
           /\ graph["tasknode"][i].pattern_id = "reward"
           /\ graph["tasknode"][i].transaction_type = "RESPONSE"
           /\ graph["tasknode"][k].pattern_id = "verification_response"
           /\ graph["tasknode"][i].memo_pattern \in graph["tasknode"][k].valid_responses

\* C21: in every graph a create() returned, each pattern registered as a
\* Request has exactly one valid response pattern, and each pattern
\* registered as a Response or as Standalone has none
C21_OneValidResponse ==
    \A node \in NodeNames :
        Returned_graph(node) =>
            \A i \in 1..Len(graph[node]) :
                IF graph[node][i].transaction_type = "REQUEST"
                THEN Cardinality(graph[node][i].valid_responses) = 1
                ELSE graph[node][i].valid_responses = { }

\* C21 witness: the task node's graph is built; task_output is a Request
\* with the verification prompt as its one valid response, acceptance is
\* Standalone with none
C21_Witness ==
    /\ Returned_graph("tasknode")
    /\ \E i, k \in 1..Len(graph["tasknode"]) :
           /\ graph["tasknode"][i].pattern_id = "task_output"
           /\ graph["tasknode"][i].transaction_type = "REQUEST"
           /\ graph["tasknode"][i].valid_responses
                  = { TaskMemoPattern(VERIFICATION_PROMPT_PATTERN) }
           /\ graph["tasknode"][k].pattern_id = "acceptance"
           /\ graph["tasknode"][k].transaction_type = "STANDALONE"
           /\ graph["tasknode"][k].valid_responses = { }

\* ------------------------------------------------------------------------
\* The reward cap written into a proposal and read back from it
\* (specification SpecProposal); texts are sequences of characters, the
\* stage literal is one piece without dots
\* ------------------------------------------------------------------------

\* task_creation.py: REWARD_AMOUNT
REWARD_AMOUNT == 900

DecimalDigits == << "0", "1", "2", "3", "4", "5", "6", "7", "8", "9" >>

\* Python: str(n) for a natural number
RECURSIVE Str(_)
Str(n) ==
    IF n < 10 THEN << DecimalDigits[n + 1] >>
    ELSE Str(n \div 10) \o << DecimalDigits[(n % 10) + 1] >>

\* The text after the first '..'
RECURSIVE AfterFirstDots(_)
AfterFirstDots(s) ==
    IF Len(s) < 2 THEN s
    ELSE IF s[1] = "." /\ s[2] = "." THEN SubSeq(s, 3, Len(s))
    ELSE AfterFirstDots(Tail(s))

\* Python: s.split('..')[-1]: the separators are found from the left and do
\* not overlap; the result is the piece after the last of them
RECURSIVE LastPiece(_, _)
LastPiece(s, piece) ==
    IF s = << >> THEN piece
    ELSE IF Len(s) >= 2 /\ s[1] = "." /\ s[2] = "."
         THEN LastPiece(SubSeq(s, 3, Len(s)), << >>)
         ELSE LastPiece(Tail(s), Append(piece, Head(s)))

AfterLastDots(s) == LastPiece(s, << >>)

\* process_task_map_to_proposed_pf: the proposal string of a task text
pf_proposal_string_of(content) ==
    TaskTypeValue("PROPOSAL") \o content \o << " ", ".", ".", " " >> \o Str(REWARD_AMOUNT)

\* _get_task_context: proposed_reward = initial_task.split('..')[-1].strip()
proposed_reward_of(initial_task) == Strip(AfterLastDots(initial_task))

MaxTextLen == 4
TextChars == { ".", " ", "a", "7" }

\* extract_final_output returns a stripped text
TaskTexts ==
    { t \in UNION { [ 1..n -> TextChars ] : n \in 0..MaxTextLen } : Strip(t) = t }

ProposalInit ==
    /\ task_text \in TaskTexts
    /\ pf_proposal_string = << >>
    /\ proposed_reward = NotCalled

\* NewTaskGeneration.process_task_map_to_proposed_pf builds the proposal
BuildProposal ==
    /\ pf_proposal_string = << >>
    /\ pf_proposal_string' = pf_proposal_string_of(task_text)
    /\ UNCHANGED << task_text, proposed_reward >>
    /\ UNCHANGED << reduceVars, rewardVars, nodeVars, lifeVars, classVars, graphVars,
                    corbanuVars, likeVars, sideVars >>

\* RewardResponseGenerator._get_task_context reads the proposed reward from
\* the proposal
ReadProposedReward ==
    /\ pf_proposal_string # << >>
    /\ proposed_reward = NotCalled
    /\ proposed_reward' = [ called |-> TRUE, text |-> proposed_reward_of(pf_proposal_string) ]
    /\ UNCHANGED << task_text, pf_proposal_string >>
    /\ UNCHANGED << reduceVars, rewardVars, nodeVars, lifeVars, classVars, graphVars,
                    corbanuVars, likeVars, sideVars >>

ProposalNext == BuildProposal \/ ReadProposedReward

SpecProposalInit ==
    /\ ProposalInit /\ CorbanuIdle /\ LikeIdle /\ SideIdle
    /\ ReduceIdle /\ RewardIdle /\ NodeIdle /\ LifeIdle /\ ClassIdle /\ GraphIdle

SpecProposal == SpecProposalInit /\ [][ProposalNext]_vars

\* C23: the proposed reward read from a proposal the node built (the text
\* after the last '..', stripped) is the reward cap the proposal was built
\* with, whatever the task text contains
C23_CapRoundTrip ==
    proposed_reward.called => proposed_reward.text = Str(REWARD_AMOUNT)

\* C23 witness: the task text itself holds '..' and ends with a dot, and
\* the proposed reward read back is 900
C23_Witness ==
    /\ proposed_reward.called
    /\ \E i \in 1..(Len(task_text) - 1) : task_text[i] = "." /\ task_text[i + 1] = "."
    /\ task_text[Len(task_text)] = "."
    /\ proposed_reward.text = << "9", "0", "0" >>

\* ------------------------------------------------------------------------
\* The Corbanu reward limits (specification SpecCorbanu)
\* ------------------------------------------------------------------------

\* CorbanuChatBot.__init__
MAX_PER_OFFERING_REWARD_VALUE == 3000
MAX_DAILY_REWARD_VALUE == 9000

CorbanuRewardMemo == << "Corbanu Reward" >>

\* A row of the account's memo history; recent: datetime >= cutoff_time
MemoRow(dest, mdata, pft) ==
    [ destination |-> dest, memo_data |-> mdata, recent |-> TRUE, pft_amount |-> pft ]

\* corbanu_rewards['pft_amount'].sum() over the rows the filter keeps
RECURSIVE SumOfCorbanuRewards(_, _)
SumOfCorbanuRewards(rows, account_address) ==
    IF rows = << >> THEN 0
    ELSE (IF /\ Head(rows).destination = account_address
             /\ Contains(CorbanuRewardMemo, Head(rows).memo_data)
             /\ Head(rows).recent
          THEN Head(rows).pft_amount ELSE 0)
         + SumOfCorbanuRewards(Tail(rows), account_address)

\* A limit check that returns the whole daily limit when it fails
check_daily_reward_limit_open(rows, account_address, ok) ==
    IF ok
    THEN Max(MAX_DAILY_REWARD_VALUE - SumOfCorbanuRewards(rows, account_address), 0)
    ELSE MAX_DAILY_REWARD_VALUE

\* CorbanuChatBot.check_daily_reward_limit; ok is FALSE when fetching or
\* filtering the history raises
check_daily_reward_limit(rows, account_address, ok) ==
    IF ok
    THEN Max(MAX_DAILY_REWARD_VALUE - SumOfCorbanuRewards(rows, account_address), 0)
    ELSE 0

MaxMemoHistory == 4

\* reward_value of the scoring output: the number the model wrote, 1 when
\* scoring or parsing failed
RewardValues == { 1, 3000, 5000 }

CorbanuInit ==
    /\ memo_history = << >>
    /\ corbanu_sent = NotCalled

\* TaskNodeDiscordBot.corbanu_reply from the limit check on: the reward is
\* capped by the remaining daily limit and by the per-offering limit and
\* sent; the history gets the reward when the transaction went through
corbanu_reply(reward_value, check_ok, sent_ok) ==
    /\ Len(memo_history) < MaxMemoHistory
    /\ LET remaining_daily_limit == check_daily_reward_limit(memo_history, "rU1", check_ok)
           capped == Min(Min(reward_value, remaining_daily_limit),
                         MAX_PER_OFFERING_REWARD_VALUE)
       IN  /\ corbanu_sent' = [ called |-> TRUE, history_before |-> memo_history,
                                check_ok |-> check_ok, reward_value |-> reward_value,
                                pft_amount |-> capped ]
           /\ memo_history' = IF sent_ok
                              THEN Append(memo_history,
                                          MemoRow("rU1", CorbanuRewardMemo, capped))
                              ELSE memo_history
    /\ UNCHANGED << reduceVars, rewardVars, nodeVars, lifeVars, classVars, graphVars,
                    proposalVars, likeVars, sideVars >>

\* Another memo enters the account's history: a task reward the account
\* receives, or a memo the account sends that quotes the reward text
OtherMemo(row) ==
    /\ Len(memo_history) < MaxMemoHistory
    /\ memo_history' = Append(memo_history, row)
    /\ UNCHANGED corbanu_sent
    /\ UNCHANGED << reduceVars, rewardVars, nodeVars, lifeVars, classVars, graphVars,
                    proposalVars, likeVars, sideVars >>

\* Time passes: the oldest row of the last 24 hours leaves the window
HoursPass ==
    /\ \E i \in 1..Len(memo_history) :
          /\ memo_history[i].recent
          /\ \A j \in 1..(i - 1) : ~memo_history[j].recent
          /\ memo_history' = [ memo_history EXCEPT ![i].recent = FALSE ]
    /\ UNCHANGED corbanu_sent
    /\ UNCHANGED << reduceVars, rewardVars, nodeVars, lifeVars, classVars, graphVars,
                    proposalVars, likeVars, sideVars >>

CorbanuNext ==
    \/ \E reward_value \in RewardValues, check_ok, sent_ok \in BOOLEAN :
           corbanu_reply(reward_value, check_ok, sent_ok)
    \/ \E row \in { MemoRow("rU1", RewardMemo, 900),
                    MemoRow(RemembrancerAddress, CorbanuRewardMemo, 1) } : OtherMemo(row)
    \/ HoursPass

SpecCorbanuInit ==
    /\ CorbanuInit /\ ProposalIdle /\ LikeIdle /\ SideIdle
    /\ ReduceIdle /\ RewardIdle /\ NodeIdle /\ LifeIdle /\ ClassIdle /\ GraphIdle

SpecCorbanu == SpecCorbanuInit /\ [][CorbanuNext]_vars

\* The Corbanu rewards the account received in the last 24 hours
RECURSIVE ReceivedInLast24h(_)
ReceivedInLast24h(rows) ==
    IF rows = << >> THEN 0
    ELSE ReceivedInLast24h(Tail(rows))
         + (IF /\ Head(rows).memo_data = CorbanuRewardMemo
               /\ Head(rows).destination = "rU1"
               /\ Head(rows).recent
            THEN Head(rows).pft_amount ELSE 0)

StagePatternNames == { "PROPOSAL", "VERIFICATION_PROMPT", "REWARD", "IMAGE_GEN_RESPONSE" }

StagePattern(name) ==
    CASE name = "PROPOSAL"            -> PROPOSAL_PATTERN
      [] name = "VERIFICATION_PROMPT" -> VERIFICATION_PROMPT_PATTERN
      [] name = "REWARD"              -> REWARD_PATTERN
      [] name = "IMAGE_GEN_RESPONSE"  -> IMAGE_RESPONSE_PATTERN

MaxLikeLen == 3

\* The pieces of the memo texts: the four stage literals without their
\* trailing space, texts that differ from them at the underscores, a space
\* and other text
LikePieces ==
    { RStrip(TaskTypeValue(name))[1] : name \in StagePatternNames }
    \cup { Lookalike(RStrip(TaskTypeValue(name))[1]) : name \in StagePatternNames }
    \cup { " ", "text" }

LikeInit ==
    /\ like_input \in [ name : StagePatternNames,
                        memo_data : UNION { [ 1..n -> LikePieces ] : n \in 0..MaxLikeLen } ]
    /\ like_result = NotCalled

\* The memo is matched against the pattern of the graph and against the LIKE
\* pattern regex_to_sql_pattern makes of it
MatchBoth ==
    /\ like_result = NotCalled
    /\ like_result' =
           [ called |-> TRUE,
             regex |-> RegexMatches(StagePattern(like_input.name), like_input.memo_data),
             like |-> Like(like_input.memo_data,
                           regex_to_sql_pattern(StagePattern(like_input.name))) ]
    /\ UNCHANGED like_input
    /\ UNCHANGED << reduceVars, rewardVars, nodeVars, lifeVars, classVars, graphVars,
                    proposalVars, corbanuVars, sideVars >>

LikeNext == MatchBoth

SpecLikeInit ==
    /\ LikeInit /\ ProposalIdle /\ CorbanuIdle /\ SideIdle
    /\ ReduceIdle /\ RewardIdle /\ NodeIdle /\ LifeIdle /\ ClassIdle /\ GraphIdle

SpecLike == SpecLikeInit /\ [][LikeNext]_vars

\* C29: for each stage pattern of the graph and every memo data text, the
\* LIKE pattern regex_to_sql_pattern produces matches the text exactly when
\* the regular expression matches it
C29_LikeMatchesAsRegex ==
    like_result.called => (like_result.like <=> like_result.regex)

\* ------------------------------------------------------------------------
\* Specification Spec: the task lifecycle on the ledger
\* ------------------------------------------------------------------------

\* The ledger the node finds when it starts: a task of rU1 that got as far
\* as any stage from the proposal to the reward
History ==
    << Event(NodeAddress, "rU1", << "T1" >>, ProposalA, 0, TRUE),
       Event(NodeAddress, "rU1", << "T1" >>, VerificationPromptMemo, 0, TRUE),
       Event("rU1", NodeAddress, << "T1" >>, VerificationResponseMemo, 0, TRUE),
       EventP(NodeAddress, "rU1", << "T1" >>, RewardMemo, 0, TRUE, 900) >>

\* The memo transactions users submit while the node runs (a failed
\* submission never reaches the rules)
UserTxs ==
    { Event("rU1", NodeAddress, << "T1" >>, md, 0, TRUE) :
          md \in { RequestMemo, TaskOutputMemo, VerificationResponseMemo } }
    \cup { Event("rU2", NodeAddress, << "T1" >>, md, 0, TRUE) :
              md \in { VerificationResponseMemo, ProposalB } }

Init ==
    /\ \E k \in 0..Len(History) : log = SubSeq(History, 1, k)
    /\ clock = 1
    /\ config = [ USE_TESTNET |-> FALSE, ENABLE_REINITIATIONS |-> FALSE ]
    /\ cur = Idle
    /\ ReduceIdle
    /\ RewardIdle
    /\ OtherIdle

Next ==
    \/ \E i \in 1..Len(log), pattern_id \in RequestPatternIds : Pickup(i, pattern_id)
    \/ CheckResponse
    \/ \E ext \in TaskExternals : Generate(ext)
    \/ \E ok \in BOOLEAN : Send(ok)
    \/ Tick
    \/ \E tx \in UserTxs : Submit(tx)

Spec == Init /\ [][Next]_vars

\* ------------------------------------------------------------------------
\* Specification SpecReconcile: one request of any kind on a ledger that
\* holds the proposal and the verification prompt of a task and one more
\* transaction of the shape of a response
\* ------------------------------------------------------------------------

ImageGenMemo == << "GENERATE IMAGE ___", "cat" >>
ImageResponseMemo == << "IMAGE RESPONSE ___", " ipfs hash: ", "QmHash" >>

\* memo type, memo data and PFT amount of the requests users send
RequestShapes ==
    { << INITIATION_RITE, << "my", "rite" >>, 0 >>,
      << HANDSHAKE, ValidPublicKey, 0 >>,
      << << "T1" >>, RequestMemo, 0 >>,
      << << "T1" >>, TaskOutputMemo, 0 >>,
      << << "T1" >>, VerificationResponseMemo, 0 >>,
      << << "T1" >>, << "ODV", "hello" >>, 0 >>,
      << << "T1" >>, << "[Decrypted]", "ODV", "hello" >>, 0 >>,
      << << "T1" >>, ImageGenMemo, 1 >>,
      << << "T1", "__", NFT_MINT >>, << "ipfs://x" >>, 1 >>,
      << << "T1", "__", NFT_MINT >>, << " " >>, 1 >> }

RequestTxs ==
    { EventP("rU1", d, sh[1], sh[2], 1, TRUE, sh[3]) :
          d \in { NodeAddress, RemembrancerAddress }, sh \in RequestShapes }

\* memo type and memo data of the responses the generators construct
ResponseShapes ==
    { << INITIATION_REWARD, << "welcome" >> >>, << HANDSHAKE, << "nodekey" >> >> }
    \cup UNION { { << << t >>, ProposalA >>,
                   << << t >>, VerificationPromptMemo >>,
                   << << t >>, RewardMemo >>,
                   << << t >>, ImageResponseMemo >>,
                   << << t, "_response" >>, << "ODV SYSTEM: ", "x" >> >>,
                   << << t, "__", NFT_MINT_RESPONSE >>, << "offer id: ", "OFFER1" >> >> } :
                 t \in TaskIds }

CandidateTxs ==
    { Event(a, d, sh[1], sh[2], time, ok) :
          a \in { NodeAddress, RemembrancerAddress, "rU2" }, d \in Users,
          sh \in ResponseShapes, time \in 0..MaxTime, ok \in BOOLEAN }

ReconcileInit ==
    /\ \E seed \in { SubSeq(History, 1, 2) }, r \in RequestTxs :
          \/ log = seed \o << r >>
          \/ \E c \in CandidateTxs :
                log = seed \o (IF c.datetime < r.datetime THEN << c, r >> ELSE << r, c >>)
    /\ clock = MaxTime
    /\ config \in Configs
    /\ cur = Idle
    /\ ReduceIdle
    /\ RewardIdle
    /\ OtherIdle

ReconcileNext ==
    \/ \E i \in 1..Len(log), pattern_id \in RequestPatternIds : Pickup(i, pattern_id)
    \/ CheckResponse
    \/ \E ext \in Externals : Generate(ext)
    \/ \E ok \in BOOLEAN : Send(ok)

SpecReconcile == ReconcileInit /\ [][ReconcileNext]_vars

\* ------------------------------------------------------------------------
\* Properties of the node
\* ------------------------------------------------------------------------

IsRewardOf(tx, memo_type) ==
    /\ tx.success
    /\ tx.account = NodeAddress
    /\ tx.memo_type = memo_type
    /\ MatchesPattern("reward", tx)

\* C1: for a task id at most one Reward is ever emitted, also when further
\* VerificationResponse events arrive for it
C1_AtMostOneReward ==
    \A i, j \in 1..Len(log) :
        (IsRewardOf(log[i], log[i].memo_type) /\ IsRewardOf(log[j], log[i].memo_type)) => i = j

\* The ledger as the response lookup of the evaluation saw it
LedgerAt(n) == SubSeq(log, 1, n)

\* A successful event of the ledger from the request's destination to the
\* request's account, with the request's task id and of the kind the request
\* expects as response; timed: with a timestamp not earlier than the request's
RespondedBy(request_tx, pattern_id, ledger, timed) ==
    \E i \in 1..Len(ledger) :
        /\ ledger[i].success
        /\ ledger[i].account = request_tx.destination
        /\ ledger[i].destination = request_tx.account
        /\ TaskIdOf(ledger[i].memo_type) = TaskIdOf(request_tx.memo_type)
        /\ MatchesPattern(ValidResponse(pattern_id), ledger[i])
        /\ timed => ledger[i].datetime >= request_tx.datetime

\* Must the response be timed: always, or for every request except an
\* initiation rite of a node that does not run on testnet with
\* re-initiations enabled
TimeCondition(pattern_id, always) ==
    always \/ (pattern_id = "initiation_rite" => (config.USE_TESTNET /\ config.ENABLE_REINITIATIONS))

\* Every finished response lookup reported answered exactly when the ledger
\* it was run on held a response to the request
LookupsAgree(always) ==
    /\ (cur.pc = "done" /\ cur.status = "answered") =>
          RespondedBy(log[cur.idx], cur.pattern_id, LedgerAt(cur.checked_at),
                      TimeCondition(cur.pattern_id, always))
    /\ (cur.pc \in { "evaluate", "send" } \/ (cur.pc = "done" /\ cur.status # "answered")) =>
          ~RespondedBy(log[cur.idx], cur.pattern_id, LedgerAt(cur.checked_at),
                       TimeCondition(cur.pattern_id, always))

TaskRequestPatternIds == { "request_post_fiat", "task_output", "verification_response", "image_gen" }

Routed(request_tx, pattern_id, response) ==
    /\ response.destination = request_tx.account
    /\ TaskIdOf(response.memo_type) = TaskIdOf(request_tx.memo_type)
    /\ pattern_id \in TaskRequestPatternIds => response.memo_type = request_tx.memo_type

\* C6: every constructed response is addressed to the account that sent the
\* request, and every task response carries the request's memo type
C6_ResponseRouted ==
    (cur.pc = "send" \/ (cur.pc = "done" /\ cur.status = "sent")) =>
        Routed(log[cur.idx], cur.pattern_id, cur.response)

C6_Witness ==
    /\ cur.pc = "done"
    /\ cur.status = "sent"
    /\ cur.pattern_id = "verification_response"
    /\ log[Len(log)].destination = "rU1"
    /\ log[Len(log)].memo_type = << "T1" >>
    /\ MatchesPattern("reward", log[Len(log)])

\* The response sent for the request under evaluation is on the ledger: the
\* ledger holds it as a successful transaction after the request
ResponseOnLedger ==
    \E i \in (cur.idx + 1)..Len(log) :
        /\ log[i].success
        /\ log[i].account = cur.response.source
        /\ log[i].destination = cur.response.destination
        /\ log[i].memo_type = cur.response.memo_type
        /\ log[i].memo_data = cur.response.memo_data

\* C28: for every request kind, the response the kind's generator
\* constructed for a request satisfies the query the request rule's
\* find_response builds for that request: once the response is on the ledger
\* the lookup reports the request as answered
C28_SentResponseAnswers ==
    (cur.pc = "done" /\ cur.status = "sent" /\ ResponseOnLedger) =>
        find_transaction_response(find_response(cur.pattern_id, log[cur.idx], config), log)

\* C28 witness: the verification prompt constructed for a task output is on
\* the ledger, with the request's memo type and the stage literal in its
\* memo data, and no other transaction of the ledger answers the request
C28_Witness ==
    /\ cur.pc = "done" /\ cur.status = "sent" /\ ResponseOnLedger
    /\ cur.pattern_id = "task_output"
    /\ log[Len(log)].memo_type = log[cur.idx].memo_type
    /\ Contains(RStrip(TaskTypeValue("VERIFICATION_PROMPT")), log[Len(log)].memo_data)
    /\ ~find_transaction_response(find_response(cur.pattern_id, log[cur.idx], config),
                                  SubSeq(log, 1, Len(log) - 1))

\* The number a proposal carries after its last '..': the reward cap
ProposalCap(proposal) ==
    LET field == Strip(AfterLast(proposal, ".."))
    IN  CASE field = << "900" >> -> 900
          [] field = << "500" >> -> 500

\* C30: the amount of a Reward the node emits for a task never exceeds the
\* reward cap at the end of the task's proposal, whatever the arbitration
\* returns
C30_RewardWithinCap ==
    \A i, j \in 1..Len(log) :
        ( /\ IsRewardOf(log[i], log[j].memo_type)
          /\ log[j].success
          /\ log[j].account = NodeAddress
          /\ log[j].destination = log[i].destination
          /\ MatchesPattern("proposal", log[j]) ) =>
            log[i].pft_amount <= ProposalCap(log[j].memo_data)

\* C31: the PFT amount of an initiation reward the node sends is positive
\* and within a fixed maximum, whatever the language model returned
C31_InitiationRewardBounded ==
    ( /\ cur.pc = "send" \/ (cur.pc = "done" /\ cur.status = "sent")
      /\ cur.pattern_id = "initiation_rite" ) =>
        /\ cur.response.pft_amount >= MIN_REWARD_AMOUNT
        /\ cur.response.pft_amount <= MAX_REWARD_AMOUNT

\* The events of a ledger exchanged between an account and the node
OwnEvents(ledger, acct) ==
    SelectSeq(ledger, LAMBDA tx : \/ tx.account = acct /\ tx.destination = NodeAddress
                                  \/ tx.account = NodeAddress /\ tx.destination = acct)

\* C32: the proposal text and the verification prompt selected for an
\* account's VerificationResponse are the ones selected from the events
\* exchanged between the account and the node alone: events of other
\* accounts with the same task id do not change them
C32_ContextOfOwnEvents ==
    (cur.pc = "send" /\ cur.pattern_id = "verification_response") =>
        \E n \in cur.idx..Len(log) :
            \E own \in get_task_context(log[cur.idx],
                                        OwnEvents(LedgerAt(n), log[cur.idx].account)) :
                /\ own.initial_task = cur.evaluation_result.context.initial_task
                /\ own.verification_prompt = cur.evaluation_result.context.verification_prompt

\* The successful initiation rewards of a ledger sent to an account by the
\* address that received its rite
InitiationRewardsTo(ledger, rite) ==
    { i \in 1..Len(ledger) :
          /\ ledger[i].success
          /\ ledger[i].memo_type = INITIATION_REWARD
          /\ ledger[i].account = rite.destination
          /\ ledger[i].destination = rite.account }

\* C33: the lookup for an initiation rite asks for a reward after the rite
\* only on testnet with re-initiations enabled, where a rite reported as
\* answered has a reward not earlier than itself; in every other
\* configuration a rite of an account that has an initiation reward of any
\* time is reported as answered and no further reward is generated
C33_InitiationRewardOnce ==
    (cur.pc \in { "evaluate", "send", "done" } /\ cur.pattern_id = "initiation_rite") =>
        LET rite == log[cur.idx]
            rewards == InitiationRewardsTo(LedgerAt(cur.checked_at), rite)
            answered == cur.pc = "done" /\ cur.status = "answered"
        IN  IF config.USE_TESTNET /\ config.ENABLE_REINITIATIONS
            THEN /\ find_response(cur.pattern_id, rite, config).require_after_request
                 /\ answered <=> \E i \in rewards : log[i].datetime >= rite.datetime
            ELSE /\ ~find_response(cur.pattern_id, rite, config).require_after_request
                 /\ answered <=> rewards # { }

\* C33 witness: on testnet without re-initiations an account whose only
\* initiation reward is older than its rite is reported as answered
C33_Witness ==
    /\ cur.pc = "done" /\ cur.status = "answered"
    /\ cur.pattern_id = "initiation_rite"
    /\ config.USE_TESTNET /\ ~config.ENABLE_REINITIATIONS
    /\ InitiationRewardsTo(log, log[cur.idx]) # { }
    /\ \A i \in InitiationRewardsTo(log, log[cur.idx]) :
           log[i].datetime < log[cur.idx].datetime

HasProposal(memo_type, ledger) ==
    \E i \in 1..Len(ledger) :
        /\ ledger[i].memo_type = memo_type
        /\ MatchesPattern("proposal", ledger[i])

HasPrompt(memo_type, ledger) ==
    \E i \in 1..Len(ledger) :
        /\ ledger[i].memo_type = memo_type
        /\ MatchesPattern("verification_prompt", ledger[i])

\* C7: when a VerificationResponse is evaluated and no Proposal or no
\* VerificationPrompt is on the ledger for its task id, the evaluation ends
\* with an error: no Reward is constructed, and no default text stands in for
\* the missing one
C7_MissingContextRaises ==
    (cur.pc = "send" /\ cur.pattern_id = "verification_response") =>
        /\ HasProposal(log[cur.idx].memo_type, log)
        /\ HasPrompt(log[cur.idx].memo_type, log)
        /\ \E i \in 1..Len(log) : /\ MatchesPattern("proposal", log[i])
                                  /\ log[i].memo_data = cur.evaluation_result.context.initial_task
        /\ \E i \in 1..Len(log) : /\ MatchesPattern("verification_prompt", log[i])
                                  /\ log[i].memo_data = cur.evaluation_result.context.verification_prompt

C7_Witness ==
    /\ cur.pc = "done"
    /\ cur.status = "evaluate_raised"
    /\ cur.pattern_id = "verification_response"
    /\ HasProposal(log[cur.idx].memo_type, log)
    /\ ~HasPrompt(log[cur.idx].memo_type, log)


\* C35: for the NFT mint and image generators an evaluation without a
\* result (empty request data, failed mint, sell offer, generation or
\* pinning) makes construct_response raise and leaves no response memo; a
\* response memo is constructed only from an offer id or an IPFS hash
C35_NoResultNoResponse ==
    [][ ( /\ cur.pc = "evaluate"
          /\ cur.pattern_id \in { "nft_mint", "image_gen" }
          /\ cur'.pc # "evaluate" ) =>
            /\ log' = log
            /\ \/ /\ cur'.pc = "send"
                  /\ Strip(log[cur.idx].memo_data) # << >>
                  /\ IF cur.pattern_id = "nft_mint"
                     THEN /\ cur'.evaluation_result.offer_id # "None"
                          /\ cur'.response.memo_data =
                                 << "offer id: ", cur'.evaluation_result.offer_id >>
                     ELSE /\ cur'.evaluation_result.ipfs_hash # "None"
                          /\ cur'.response.memo_data =
                                 TaskTypeValue("IMAGE_GEN_RESPONSE")
                                     \o << " ipfs hash: ", cur'.evaluation_result.ipfs_hash >>
               \/ /\ cur'.pc = "done"
                  /\ cur'.status = "construct_raised"
                  /\ cur'.response = NoResponse ]_vars

\* C35 witness: an NFT mint request with blank memo data ended in the
\* exception of construct_response
C35_Witness ==
    /\ cur.pc = "done" /\ cur.status = "construct_raised"
    /\ cur.pattern_id = "nft_mint"
    /\ Strip(log[cur.idx].memo_data) = << >>

\* The memo data was decrypted after it was read from the ledger
WasEncrypted(tx) ==
    \E i \in 1..Len(tx.memo_data) : tx.memo_data[i] = "[Decrypted]"

\* C36: the response to an encrypted ODV request is encrypted with the
\* shared secret of the channel or is not constructed at all; it is never
\* constructed in plaintext
C36_EncryptedStaysEncrypted ==
    ( /\ cur.pc \in { "send", "done" }
      /\ cur.pattern_id = "odv_request"
      /\ WasEncrypted(log[cur.idx]) ) =>
        \/ cur.pc = "done" /\ cur.status \in { "answered", "construct_raised" }
        \/ /\ cur.response.ok
           /\ Head(cur.response.memo_data) = "WHISPER__"

\* C36 witness: the encrypted answer to an encrypted request waits to be sent
C36_Witness ==
    /\ cur.pc = "send"
    /\ cur.pattern_id = "odv_request"
    /\ WasEncrypted(log[cur.idx])
    /\ Head(cur.response.memo_data) = "WHISPER__"

\* ------------------------------------------------------------------------
\* XRPLNFTMinter: mint, sell offer and acceptance
\* ------------------------------------------------------------------------

\* What submit_and_wait can give back: a response with a transaction
\* result, a hash and the ids of the meta section, or an exception (Raised)
TransactionResults == { "tesSUCCESS", "tecNO_PERMISSION" }

SubmitResponses ==
    [ ok : { TRUE }, TransactionResult : TransactionResults,
      hash : { "H1", "None" }, nftoken_id : { "N1", "None" },
      offer_id : { "O1", "None" }, is_successful : BOOLEAN ]

SubmitOutcomes == SubmitResponses \cup { Raised }

\* mint_nft without its except clause: the exception reaches the caller
mint_nft_unguarded(response) ==
    IF response = Raised THEN Raised
    ELSE IF response.TransactionResult = "tesSUCCESS"
         THEN [ type |-> "MintSuccess", nft_id |-> response.nftoken_id,
                transaction_hash |-> response.hash,
                validated |-> response.is_successful ]
         ELSE [ type |-> "MintError", transaction_hash |-> response.hash,
                message |-> << "Transaction failed:", response.TransactionResult >> ]

mint_nft(response) ==
    IF response = Raised
    THEN [ type |-> "MintError", transaction_hash |-> "None",
           message |-> << "exception" >> ]
    ELSE IF response.TransactionResult = "tesSUCCESS"
         THEN [ type |-> "MintSuccess", nft_id |-> response.nftoken_id,
                transaction_hash |-> response.hash,
                validated |-> response.is_successful ]
         ELSE [ type |-> "MintError", transaction_hash |-> response.hash,
                message |-> << "Transaction failed:", response.TransactionResult >> ]

create_sell_offer(response) ==
    IF response = Raised
    THEN [ type |-> "SellError", message |-> << "exception" >> ]
    ELSE IF response.TransactionResult = "tesSUCCESS"
         THEN [ type |-> "SellSuccess", offer_id |-> response.offer_id,
                transaction_hash |-> response.hash ]
         ELSE [ type |-> "SellError",
                message |-> << "Offer creation failed:", response.TransactionResult >> ]

MinterInit ==
    /\ minter_pc = "start" /\ mint_result = NotCalled /\ offer_result = NotCalled
    /\ nft_result = NotCalled /\ accept_result = NotCalled /\ submitted = << >>

\* create_nft_for_recipient up to the return of mint_nft: a MintError ends
\* the call with an NFTError that carries no offer result
create_nft_for_recipient_mint(response) ==
    /\ minter_pc = "start"
    /\ submitted' = Append(submitted, "NFTokenMint")
    /\ mint_result' = mint_nft(response)
    /\ IF mint_result' = Raised
       THEN /\ nft_result' = Raised
            /\ minter_pc' = "done"
       ELSE IF mint_result'.type = "MintError"
       THEN /\ nft_result' = [ type |-> "NFTError", mint_result |-> mint_result',
                               message |-> << "Failed to mint NFT" >>,
                               offer_result |-> "None" ]
            /\ minter_pc' = "done"
       ELSE /\ nft_result' = nft_result
            /\ minter_pc' = "offer"
    /\ UNCHANGED << offer_result, accept_result >>
    /\ UNCHANGED << reduceVars, rewardVars, nodeVars, lifeVars, classVars, graphVars,
                    proposalVars, corbanuVars, likeVars, marchVars, replyVars >>

\* create_nft_for_recipient from the sell offer to its return
create_nft_for_recipient_offer(response) ==
    /\ minter_pc = "offer"
    /\ submitted' = Append(submitted, "NFTokenCreateOffer")
    /\ offer_result' = create_sell_offer(response)
    /\ nft_result' =
           IF offer_result'.type = "SellError"
           THEN [ type |-> "NFTError", mint_result |-> mint_result,
                  offer_result |-> offer_result',
                  message |-> << "Failed to create transfer offer" >> ]
           ELSE [ type |-> "NFTSuccess", mint_result |-> mint_result,
                  offer_result |-> offer_result',
                  nft_id |-> mint_result.nft_id,
                  offer_id |-> offer_result'.offer_id ]
    /\ minter_pc' = "done"
    /\ UNCHANGED << mint_result, accept_result >>
    /\ UNCHANGED << reduceVars, rewardVars, nodeVars, lifeVars, classVars, graphVars,
                    proposalVars, corbanuVars, likeVars, marchVars, replyVars >>

\* accept_offer of the recipient for the offer id of a created NFT
accept_offer(response) ==
    /\ minter_pc = "done"
    /\ nft_result # Raised
    /\ nft_result.type = "NFTSuccess"
    /\ accept_result = NotCalled
    /\ submitted' = Append(submitted, "NFTokenAcceptOffer")
    /\ accept_result' =
           IF response = Raised
           THEN [ type |-> "AcceptOfferError", message |-> << "exception" >> ]
           ELSE IF response.TransactionResult = "tesSUCCESS"
                THEN IF response.hash = "None"
                     THEN [ type |-> "AcceptOfferError",
                            message |-> << "hash could not be found" >> ]
                     ELSE [ type |-> "AcceptOfferSuccess",
                            transaction_hash |-> response.hash ]
                ELSE [ type |-> "AcceptOfferError",
                       message |-> << "Offer acceptance failed:",
                                      response.TransactionResult >> ]
    /\ UNCHANGED << minter_pc, mint_result, offer_result, nft_result >>
    /\ UNCHANGED << reduceVars, rewardVars, nodeVars, lifeVars, classVars, graphVars,
                    proposalVars, corbanuVars, likeVars, marchVars, replyVars >>

MinterNext ==
    \/ \E response \in SubmitOutcomes : create_nft_for_recipient_mint(response)
    \/ \E response \in SubmitOutcomes : create_nft_for_recipient_offer(response)
    \/ \E response \in SubmitOutcomes : accept_offer(response)

SpecMinterInit ==
    /\ MinterInit /\ MarchIdle /\ ReplyIdle
    /\ ProposalIdle /\ CorbanuIdle /\ LikeIdle
    /\ ReduceIdle /\ RewardIdle /\ NodeIdle /\ LifeIdle /\ ClassIdle /\ GraphIdle

SpecMinter == SpecMinterInit /\ [][MinterNext]_vars

\* C34: the sell offer is submitted only after a successful mint; the call
\* returns NFTSuccess only when the mint and the sell offer both succeeded,
\* returns an NFTError without an offer result when the mint failed, and no
\* failure of mint_nft, create_sell_offer or accept_offer is raised: each
\* is returned as an error value
C34_MintThenOfferNoRaise ==
    /\ mint_result # Raised /\ offer_result # Raised
    /\ nft_result # Raised /\ accept_result # Raised
    /\ (Len(submitted) >= 2 /\ submitted[2] = "NFTokenCreateOffer") =>
           /\ submitted[1] = "NFTokenMint"
           /\ mint_result.type = "MintSuccess"
    /\ minter_pc = "done" =>
           /\ nft_result.type \in { "NFTSuccess", "NFTError" }
           /\ nft_result.type = "NFTSuccess" <=>
                  /\ mint_result.type = "MintSuccess"
                  /\ offer_result # NotCalled
                  /\ offer_result.type = "SellSuccess"
           /\ mint_result.type = "MintError" =>
                  /\ nft_result.type = "NFTError"
                  /\ nft_result.offer_result = "None"
                  /\ offer_result = NotCalled
                  /\ submitted = << "NFTokenMint" >>
    /\ accept_result # NotCalled =>
           accept_result.type \in { "AcceptOfferSuccess", "AcceptOfferError" }

\* the mint raised inside submit_and_wait and the call returned an NFTError
C34_Witness ==
    /\ minter_pc = "done"
    /\ nft_result.type = "NFTError"
    /\ mint_result.type = "MintError"
    /\ mint_result.message = << "exception" >>
    /\ submitted = << "NFTokenMint" >>


\* ------------------------------------------------------------------------
\* The death march commands of the Discord bot, for one user with a stored
\* seed and an initiation rite (specification SpecMarch)
\* ------------------------------------------------------------------------
MaxSettings == 2
MaxStarts == 2

\* The hours and intervals the select menus of /pf_configure_deathmarch
\* offer: any hour on testnet, 5-12 and 16-23 otherwise
StartTimeOptions(testnet) == IF testnet THEN { 10, 17 } ELSE { 10 }
EndTimeOptions(testnet) == IF testnet THEN { 10, 16 } ELSE { 16 }
IntervalOptions(testnet) == IF testnet THEN { 30, 120 } ELSE { 120, 240 }

\* The days a user can pass to /pf_death_march_start (any int) and the
\* PFT balances of the user
DayCounts == { -1, 0, 2 }
Balances == { 0, 100000 }

\* Python: int(a / b) for b > 0 rounds towards zero
IntTrunc(a, b) == IF a >= 0 THEN a \div b ELSE -((-a) \div b)

\* TaskNodeDiscordBot._calculate_death_march_costs
calculate_death_march_costs(settings, days) ==
    LET daily_duration == (settings.end_time - settings.start_time) * 60
        checks_per_day == IntTrunc(daily_duration, settings.check_interval)
    IN  [ checks_per_day |-> checks_per_day, total_cost |-> checks_per_day * days * 30 ]

\* Python: del s[i]
RemoveAt(s, i) == SubSeq(s, 1, i - 1) \o SubSeq(s, i + 1, Len(s))

MarchInit ==
    /\ use_testnet \in BOOLEAN
    /\ settings_objects = << >> /\ user_deathmarch_settings = 0
    /\ checker_tasks = << >> /\ death_march_tasks = 0
    /\ starts = << >> /\ payments = << >>

\* select_callback with the fourth choice made: a new DeathMarchSettings
\* object without session data replaces the user's entry
select_callback(start_time, end_time, interval) ==
    /\ Len(settings_objects) < MaxSettings
    /\ settings_objects' = Append(settings_objects,
                                  [ start_time |-> start_time, end_time |-> end_time,
                                    check_interval |-> interval, session_end |-> "None" ])
    /\ user_deathmarch_settings' = Len(settings_objects')
    /\ UNCHANGED << use_testnet, checker_tasks, death_march_tasks, starts, payments >>
    /\ UNCHANGED << reduceVars, rewardVars, nodeVars, lifeVars, classVars, graphVars,
                    proposalVars, corbanuVars, likeVars, minterVars, replyVars >>

\* pf_death_march_start up to its await of send_memo: the settings exist,
\* no session is active, the balance covers the cost (a refusal changes
\* nothing)
pf_death_march_start_request(days, user_pft_balance) ==
    /\ Len(starts) + Len(payments) < MaxStarts
    /\ user_deathmarch_settings # 0
    /\ settings_objects[user_deathmarch_settings].session_end = "None"
    /\ LET costs == calculate_death_march_costs(settings_objects[user_deathmarch_settings], days)
       IN  /\ ~(user_pft_balance < costs.total_cost)
           /\ starts' = Append(starts, [ settings |-> user_deathmarch_settings,
                                         days |-> days,
                                         checks_per_day |-> costs.checks_per_day,
                                         cost |-> costs.total_cost ])
    /\ UNCHANGED << use_testnet, settings_objects, user_deathmarch_settings,
                    checker_tasks, death_march_tasks, payments >>
    /\ UNCHANGED << reduceVars, rewardVars, nodeVars, lifeVars, classVars, graphVars,
                    proposalVars, corbanuVars, likeVars, minterVars, replyVars >>

\* pf_death_march_start from the return of send_memo: a failed payment
\* ends the command (a negative amount is never accepted by the ledger); a
\* payment sets the session on the settings object the command holds and
\* creates the user's checker task
pf_death_march_start_paid(i, ok) ==
    /\ i \in 1..Len(starts)
    /\ starts' = RemoveAt(starts, i)
    /\ IF ok /\ starts[i].cost >= 0
       THEN /\ payments' = Append(payments, starts[i])
            /\ settings_objects' =
                   [ settings_objects EXCEPT ![starts[i].settings].session_end = "set" ]
            /\ checker_tasks' = Append(checker_tasks, [ settings |-> 0, state |-> "created" ])
            /\ death_march_tasks' = Len(checker_tasks')
       ELSE UNCHANGED << payments, settings_objects, checker_tasks, death_march_tasks >>
    /\ UNCHANGED << use_testnet, user_deathmarch_settings >>
    /\ UNCHANGED << reduceVars, rewardVars, nodeVars, lifeVars, classVars, graphVars,
                    proposalVars, corbanuVars, likeVars, minterVars, replyVars >>

\* pf_death_march_end with an active session: the task of the user's entry
\* is cancelled and the session data cleared
pf_death_march_end ==
    /\ user_deathmarch_settings # 0
    /\ settings_objects[user_deathmarch_settings].session_end # "None"
    /\ IF death_march_tasks # 0
       THEN /\ checker_tasks' =
                   [ checker_tasks EXCEPT ![death_march_tasks].state =
                         IF @ \in { "created", "running" } THEN "cancelled" ELSE @ ]
            /\ death_march_tasks' = 0
       ELSE UNCHANGED << checker_tasks, death_march_tasks >>
    /\ settings_objects' =
           [ settings_objects EXCEPT ![user_deathmarch_settings].session_end = "None" ]
    /\ UNCHANGED << use_testnet, user_deathmarch_settings, starts, payments >>
    /\ UNCHANGED << reduceVars, rewardVars, nodeVars, lifeVars, classVars, graphVars,
                    proposalVars, corbanuVars, likeVars, minterVars, replyVars >>

\* death_march_checker_for_user up to its next sleep: on its first run the
\* task takes the settings object of the user's entry; comparing the time
\* with a cleared session end raises; an expired session is cleared and
\* the task ends
death_march_checker_for_user(t, expired) ==
    /\ t \in 1..Len(checker_tasks)
    /\ checker_tasks[t].state \in { "created", "running" }
    /\ LET settings == IF checker_tasks[t].state = "created"
                       THEN user_deathmarch_settings
                       ELSE checker_tasks[t].settings
       IN  IF settings_objects[settings].session_end = "None"
           THEN /\ checker_tasks' = [ checker_tasks EXCEPT ![t] =
                                          [ settings |-> settings, state |-> "raised" ] ]
                /\ UNCHANGED settings_objects
           ELSE IF expired
           THEN /\ checker_tasks' = [ checker_tasks EXCEPT ![t] =
                                          [ settings |-> settings, state |-> "ended" ] ]
                /\ settings_objects' =
                       [ settings_objects EXCEPT ![settings].session_end = "None" ]
           ELSE /\ checker_tasks' = [ checker_tasks EXCEPT ![t] =
                                          [ settings |-> settings, state |-> "running" ] ]
                /\ UNCHANGED settings_objects
    /\ UNCHANGED << use_testnet, user_deathmarch_settings, death_march_tasks,
                    starts, payments >>
    /\ UNCHANGED << reduceVars, rewardVars, nodeVars, lifeVars, classVars, graphVars,
                    proposalVars, corbanuVars, likeVars, minterVars, replyVars >>

MarchNext ==
    \/ \E start_time \in StartTimeOptions(use_testnet),
          end_time \in EndTimeOptions(use_testnet),
          interval \in IntervalOptions(use_testnet) :
             select_callback(start_time, end_time, interval)
    \/ \E days \in DayCounts, user_pft_balance \in Balances :
          pf_death_march_start_request(days, user_pft_balance)
    \/ \E i \in 1..MaxStarts, ok \in BOOLEAN : pf_death_march_start_paid(i, ok)
    \/ pf_death_march_end
    \/ \E t \in 1..MaxStarts, expired \in BOOLEAN : death_march_checker_for_user(t, expired)

SpecMarchInit ==
    /\ MarchInit /\ MinterIdle /\ ReplyIdle
    /\ ProposalIdle /\ CorbanuIdle /\ LikeIdle
    /\ ReduceIdle /\ RewardIdle /\ NodeIdle /\ LifeIdle /\ ClassIdle /\ GraphIdle

SpecMarch == SpecMarchInit /\ [][MarchNext]_vars

\* The checker tasks that have not ended
RunningTasks(tasks) ==
    { t \in 1..Len(tasks) : tasks[t].state \in { "created", "running" } }

\* The user's entry holds an active session
SessionActive ==
    /\ user_deathmarch_settings # 0
    /\ settings_objects[user_deathmarch_settings].session_end # "None"

\* C37: a user never has two death march sessions at once: whatever the
\* interleaving of the start, configure and end commands, no payment is
\* taken while the user's session is active and at most one checker task
\* of the user is running
C37_OneSessionAtATime ==
    [][ /\ Cardinality(RunningTasks(checker_tasks')) <= 1
        /\ Len(payments') > Len(payments) => ~SessionActive ]_vars

\* C38: the amount charged for an accepted /pf_death_march_start is
\* strictly positive and is checks_per_day * days * 30 with checks_per_day
\* the floor of the minutes between start and end time over the interval
C38_ChargePositive ==
    \A k \in 1..Len(payments) :
        LET settings == settings_objects[payments[k].settings]
            checks == ((settings.end_time - settings.start_time) * 60)
                          \div settings.check_interval
        IN  /\ payments[k].cost > 0
            /\ payments[k].checks_per_day = checks
            /\ payments[k].cost = checks * payments[k].days * 30


\* ------------------------------------------------------------------------
\* The Corbanu offering and its replies, for one user with a stored seed
\* and an initiation rite (specification SpecReply)
\* ------------------------------------------------------------------------
MaxQuestions == 2
MaxReplies == 3

ReplyInit ==
    user_questions = 0 /\ asked = 0 /\ replies = << >> /\ reward_txs = << >>

\* corbanu_offering for a user without a stored question: a question is
\* generated and stored (with a stored question it is only shown again)
corbanu_offering ==
    /\ user_questions = 0
    /\ asked < MaxQuestions
    /\ asked' = asked + 1
    /\ user_questions' = asked'
    /\ UNCHANGED << replies, reward_txs >>
    /\ UNCHANGED << reduceVars, rewardVars, nodeVars, lifeVars, classVars, graphVars,
                    proposalVars, corbanuVars, likeVars, minterVars, marchVars >>

\* corbanu_reply up to its first await after the question is read: without
\* a stored question the reply is refused
corbanu_reply_question ==
    /\ Len(replies) < MaxReplies
    /\ user_questions # 0
    /\ replies' = Append(replies, [ question |-> user_questions, pc |-> "scoring" ])
    /\ UNCHANGED << user_questions, asked, reward_txs >>
    /\ UNCHANGED << reduceVars, rewardVars, nodeVars, lifeVars, classVars, graphVars,
                    proposalVars, corbanuVars, likeVars, minterVars, marchVars >>

\* corbanu_reply from the scoring to the reward transaction: a failed
\* handshake or Q&A memo and a failed reward end the reply, the question
\* stays stored
corbanu_reply_reward(i, outcome) ==
    /\ i \in 1..Len(replies)
    /\ replies[i].pc = "scoring"
    /\ IF outcome = "rewarded"
       THEN /\ reward_txs' = Append(reward_txs, replies[i].question)
            /\ replies' = [ replies EXCEPT ![i].pc = "rewarded" ]
       ELSE /\ reward_txs' = reward_txs
            /\ replies' = [ replies EXCEPT ![i].pc = "done" ]
    /\ UNCHANGED << user_questions, asked >>
    /\ UNCHANGED << reduceVars, rewardVars, nodeVars, lifeVars, classVars, graphVars,
                    proposalVars, corbanuVars, likeVars, minterVars, marchVars >>

\* corbanu_reply after the reward: the confirmation is shown and the
\* user's stored question deleted; an exception of either (the message
\* fails, the entry is gone) is caught by the handler
corbanu_reply_clear(i, shown) ==
    /\ i \in 1..Len(replies)
    /\ replies[i].pc = "rewarded"
    /\ replies' = [ replies EXCEPT ![i].pc = "done" ]
    /\ user_questions' = IF shown THEN 0 ELSE user_questions
    /\ UNCHANGED << asked, reward_txs >>
    /\ UNCHANGED << reduceVars, rewardVars, nodeVars, lifeVars, classVars, graphVars,
                    proposalVars, corbanuVars, likeVars, minterVars, marchVars >>

ReplyOutcomes == { "aborted", "reward_failed", "rewarded" }

ReplyNext ==
    \/ corbanu_offering
    \/ corbanu_reply_question
    \/ \E i \in 1..MaxReplies, outcome \in ReplyOutcomes : corbanu_reply_reward(i, outcome)
    \/ \E i \in 1..MaxReplies, shown \in BOOLEAN : corbanu_reply_clear(i, shown)

SpecReplyInit ==
    /\ ReplyInit /\ MinterIdle /\ MarchIdle
    /\ ProposalIdle /\ CorbanuIdle /\ LikeIdle
    /\ ReduceIdle /\ RewardIdle /\ NodeIdle /\ LifeIdle /\ ClassIdle /\ GraphIdle

SpecReply == SpecReplyInit /\ [][ReplyNext]_vars

\* C39: each stored Corbanu question is rewarded at most once, whatever
\* the interleaving of the user's /corbanu_reply calls for it
C39_QuestionRewardedOnce ==
    \A a, b \in 1..Len(reward_txs) :
        a # b => reward_txs[a] # reward_txs[b]

====
